---- MODULE Spec2Model ----
(***************************************************************************)
(* typed-webext: the request/response dispatcher (message.ts) and the      *)
(* stream session (stream.ts) as state machines over the host's one-shot   *)
(* message transport and its persistent ports.                             *)
(***************************************************************************)
EXTENDS Integers, Sequences, FiniteSets, TLC

VARIABLES
    listenersMap,        \* message.ts: context -> channel -> exclusive handler
    pasiveListenersMap,  \* message.ts: context -> channel -> passive observers, in insertion order
    disposers,           \* the unregister closures onMessage has returned
    aborted,             \* the abort signals that have fired
    thrown,              \* the error the last registry call raised, or None
    activeTab,           \* the host's active tab, or NoTab
    call,                \* the sendMessage invocation in progress, or the last one's outcome
    hops,                \* the one-shot transport calls of that invocation (sendMessage's, then the relay's)
    log,                 \* the observer and handler invocations of that invocation, in order
    listeners,           \* stream.ts: stream channel -> factory, in the accepting context
    streams,             \* the stream session of each end of the connection
    ports,               \* each end's port: its state and the events in flight to it
    streamDisposers,     \* the unregister closures onOpenStream has returned
    streamThrown,        \* the error the last onOpenStream call raised, or None
    storage,             \* the host's storage.local: key -> value, for the keys it holds
    changes,             \* the onChanged notifications in flight to this context, in order
    cache,               \* StorageCache.#cache: key -> CacheObj, for the keys it holds
    fetchingKeys,        \* StorageCache.#fetchingKeys
    fetches,             \* the storage.local.get calls in flight
    lastUpdate,          \* the key set update$ emitted last, or None
    overtaken            \* the keys whose notification was dropped between a read and its reply

msgVars == <<listenersMap, pasiveListenersMap, disposers, aborted, thrown, activeTab, call, hops, log>>

streamRegVars == <<streamDisposers, streamThrown>>

streamVars == <<listeners, streams, ports, streamRegVars>>

storageVars == <<storage, changes, cache, fetchingKeys, fetches, lastUpdate, overtaken>>

vars == <<msgVars, streamVars, storageVars>>

(***************************************************************************)
(* Values                                                                  *)
(***************************************************************************)
Undefined == "undefined"
None == "none"
NoTab == "notab"

BackgroundForwardMessageId == "__webext_forward_tabs_message__"
MessageIdentifier == 1

\* The execution contexts: the background, a side panel, a content script in
\* tab t1, and the content scripts of two frames of tab t2.
Ctx == {"bg", "sp", "csA", "csB", "csC"}
Channels == {"ping", "pong"}
Tabs == {"t1", "t2"}
Frames == {"f0", "f1"}

TabOf(c) == IF c = "csA" THEN "t1" ELSE IF c \in {"csB", "csC"} THEN "t2" ELSE NoTab
FrameOf(c) == IF c \in {"csA", "csB"} THEN "f0" ELSE IF c = "csC" THEN "f1" ELSE Undefined

\* Runtime.MessageSender as the host attaches it to a delivered message
MessageSender(c) == [ctx |-> c, tab |-> TabOf(c), frameId |-> FrameOf(c)]
NoSender == [ctx |-> None, tab |-> NoTab, frameId |-> Undefined]

(***************************************************************************)
(* Context classification (util)                                           *)
(***************************************************************************)
isTabsApiAvailable(c) == c \in {"bg", "sp"}

isContentScriptPage(c) == ~isTabsApiAvailable(c)

isBackgroundPage(c) == c = "bg"

isSidepanelPageSync(c) == c = "sp"

isBackgroundAnywhere(c) == TRUE

\* the module-level constants of message.ts, one per context
isBackground(c) == isBackgroundPage(c)
isSidepanel(c) == isSidepanelPageSync(c)
isContentScript(c) == isContentScriptPage(c)

(***************************************************************************)
(* Errors and their serialization (serialize-error)                        *)
(***************************************************************************)
\* an Error instance
NewError(msg, cause) == [isError |-> TRUE, name |-> "Error", message |-> msg, cause |-> cause]

\* a thrown value that is no Error instance
Thrown(v) == [isError |-> FALSE, name |-> "", message |-> <<>>, cause |-> <<v>>]

\* the plain object that crosses the transport
serializeError(e) == [plain |-> TRUE, name |-> e.name, message |-> e.message, cause |-> e.cause]

deserializeError(o) == [isError |-> TRUE, name |-> o.name, message |-> o.message, cause |-> o.cause]

NoListenerError(id) == NewError(<<"undefined from runtime.sendMessage. No listener for message", id>>, <<>>)

AmbiguousListenerError(id) == NewError(<<"null from runtime.sendMessage. Maybe multiple async runtime.onMessage listeners for message", id>>, <<>>)

NoActiveTabError == NewError(<<"No active tab">>, <<>>)

\* sender.tab!.id! when the sender has no tab
SenderTabTypeError == [isError |-> TRUE, name |-> "TypeError", message |-> <<"Cannot read properties of undefined (reading 'id')">>, cause |-> <<>>]

(***************************************************************************)
(* Responses of the one-shot transport                                     *)
(***************************************************************************)
NoResp == [kind |-> "pending"]
RespData(v) == [kind |-> "data", data |-> v]
RespError(o) == [kind |-> "error", error |-> o]
RespUndefined == [kind |-> "undefined"]
RespNull == [kind |-> "null"]
\* the transport call itself rejected (a listener's promise rejected)
RespReject(e) == [kind |-> "reject", error |-> e]

(***************************************************************************)
(* Channel registry: onMessage                                             *)
(***************************************************************************)
Get(map, c, id) == IF id \in Channels THEN map[c][id] ELSE None

GetPassive(c, id) == IF id \in Channels THEN pasiveListenersMap[c][id] ELSE <<>>

SeqRemove(s, x) == SelectSeq(s, LAMBDA y : y # x)

InSeq(s, x) == \E i \in 1..Len(s) : s[i] = x

\* Set#add keeps the first insertion's place
SetAdd(s, x) == IF InSeq(s, x) THEN s ELSE Append(s, x)

\* signal?.aborted, read when onMessage is called
NeverVoid(signal) == FALSE

Void(signal) == signal \in aborted

\* the closure onMessage returned; removed: its removeListener has run and
\* its abort listener is no longer attached
Disposer(c, id, cb, passive, signal) ==
    [ctx |-> c, id |-> id, cb |-> cb, passive |-> passive, signal |-> signal,
     noop |-> FALSE, removed |-> FALSE]

\* the () => {} returned for a signal that was aborted already
NoopDisposer(c, id, cb, passive, signal) ==
    [ctx |-> c, id |-> id, cb |-> cb, passive |-> passive, signal |-> signal,
     noop |-> TRUE, removed |-> FALSE]

DuplicateReplaces(c, id, cb) == listenersMap' = [listenersMap EXCEPT ![c][id] = cb]

\* a thrown duplicate-handler error: the map is left as it is
DuplicateKeeps(c, id, cb) == listenersMap' = listenersMap

\* onMessage(id, callback, {passive: true, signal})
onMessagePassive(c, id, cb, signal) ==
    /\ IF Void(signal)
         THEN /\ disposers' = disposers \cup {NoopDisposer(c, id, cb, TRUE, signal)}
              /\ UNCHANGED pasiveListenersMap
         ELSE /\ pasiveListenersMap' = [pasiveListenersMap EXCEPT ![c][id] = SetAdd(@, cb)]
              /\ disposers' = disposers \cup {Disposer(c, id, cb, TRUE, signal)}
    /\ thrown' = None
    /\ UNCHANGED <<listenersMap, aborted, activeTab, call, hops, log>>

\* onMessage(id, callback, {signal})
onMessageExclusive(c, id, cb, signal) ==
    /\ IF Void(signal)
         THEN /\ disposers' = disposers \cup {NoopDisposer(c, id, cb, FALSE, signal)}
              /\ thrown' = None
              /\ UNCHANGED listenersMap
         ELSE IF listenersMap[c][id] # None
         THEN /\ DuplicateKeeps(c, id, cb)
              /\ thrown' = "DuplicateHandler"
              /\ UNCHANGED disposers
         ELSE /\ listenersMap' = [listenersMap EXCEPT ![c][id] = cb]
              /\ disposers' = disposers \cup {Disposer(c, id, cb, FALSE, signal)}
              /\ thrown' = None
    /\ UNCHANGED <<pasiveListenersMap, aborted, activeTab, call, hops, log>>

\* the function onMessage returned: removeListener(), then
\* signal.removeEventListener('abort', removeListener)
Unregister(d) ==
    /\ d \in disposers
    /\ IF d.noop
         THEN UNCHANGED <<listenersMap, pasiveListenersMap, disposers>>
         ELSE /\ IF d.passive
                   THEN /\ pasiveListenersMap' =
                              [pasiveListenersMap EXCEPT ![d.ctx][d.id] = SeqRemove(@, d.cb)]
                        /\ UNCHANGED listenersMap
                   ELSE /\ listenersMap' = [listenersMap EXCEPT ![d.ctx][d.id] = None]
                        /\ UNCHANGED pasiveListenersMap
              /\ disposers' = (disposers \ {d}) \cup {[d EXCEPT !.removed = TRUE]}
    /\ thrown' = None
    /\ UNCHANGED <<aborted, activeTab, call, hops, log>>

\* the abort listeners still attached to a signal
Attached(signal) == {d \in disposers : d.signal = signal /\ ~d.noop /\ ~d.removed}

\* the signal fires: every removeListener attached to it runs
abortSignal(signal) ==
    /\ signal \notin aborted
    /\ aborted' = aborted \cup {signal}
    /\ listenersMap' =
         [c \in Ctx |-> [id \in Channels |->
            IF \E d \in Attached(signal) : ~d.passive /\ d.ctx = c /\ d.id = id
              THEN None ELSE listenersMap[c][id]]]
    /\ pasiveListenersMap' =
         [c \in Ctx |-> [id \in Channels |->
            SelectSeq(pasiveListenersMap[c][id],
                      LAMBDA cb : ~\E d \in Attached(signal) :
                                      d.passive /\ d.ctx = c /\ d.id = id /\ d.cb = cb)]]
    /\ disposers' = (disposers \ Attached(signal))
                       \cup {[d EXCEPT !.removed = TRUE] : d \in Attached(signal)}
    /\ UNCHANGED <<thrown, activeTab, call, hops, log>>

(***************************************************************************)
(* Host transport: who receives a one-shot message                         *)
(***************************************************************************)
ExtensionPages == {c \in Ctx : TabOf(c) = NoTab}

\* runtime.sendMessage reaches the extension pages other than the caller
RuntimeRecipients(from) == ExtensionPages \ {from}

\* tabs.sendMessage reaches the content scripts of the tab (of the frame, if given)
TabRecipients(tab, frame) ==
    {c \in Ctx : TabOf(c) = tab /\ (frame = Undefined \/ FrameOf(c) = frame)}

\* one transport call: api is the host function called (runtime.sendMessage,
\* or tabs.sendMessage with its tab and frame arguments)
Hop(from, api, tab, frame, env) ==
    [sender |-> MessageSender(from), api |-> api, tab |-> tab, frame |-> frame, env |-> env,
     pending |-> IF api = "tabs" THEN TabRecipients(tab, frame) ELSE RuntimeRecipients(from),
     running |-> {}, relay |-> "none", claimed |-> {}, resp |-> NoResp]

\* the first answer settles the call; with several listeners answering the
\* host may hand the caller null instead
Deliverable(h, response) == IF Cardinality(h.claimed) > 1 THEN {response, RespNull} ELSE {response}

\* sendResponse(response) / the returned promise settling: the answers the caller may get
sendResponse(h, response) == IF h.resp = NoResp THEN Deliverable(h, response) ELSE {h.resp}

(***************************************************************************)
(* sendMessage                                                             *)
(***************************************************************************)
Envelope(id, data, destination, sender) ==
    [type |-> "object", marker |-> MessageIdentifier, id |-> id, data |-> data,
     destination |-> destination, sender |-> sender]

ForwardEnvelope(tabId, frameId, id, data, destination) ==
    Envelope(BackgroundForwardMessageId,
             [tabId |-> tabId, frameId |-> frameId, id |-> id, data |-> data, destination |-> destination],
             Undefined, NoSender)

NoOutcome == [kind |-> "none"]
Resolved(v) == [kind |-> "resolved", value |-> v]
Rejected(e) == [kind |-> "rejected", error |-> e]

IdleCall == [st |-> "idle", from |-> None, id |-> None, data |-> 0, tabId |-> Undefined,
             frameId |-> Undefined, destination |-> Undefined, activeAtCall |-> Undefined,
             outcome |-> NoOutcome]

RouteIgnoresFrame(c, tabId, frameId, destination) ==
    IF destination = "content-script" /\ isContentScript(c) THEN "relay"
    ELSE IF tabId = Undefined THEN "runtime"
    ELSE IF tabId # "sender" /\ isTabsApiAvailable(c) THEN "tabs"
    ELSE "relay"

\* which branch sendMessage takes
Route(c, tabId, frameId, destination) ==
    IF destination = "content-script" /\ isContentScript(c) THEN "relay"
    ELSE IF tabId = Undefined THEN "runtime"
    ELSE IF tabId # "sender" /\ frameId # "sender" /\ isTabsApiAvailable(c) THEN "tabs"
    ELSE "relay"

SentDataDropped(data) == 0

\* the data field of the envelope sendMessage builds
SentData(data) == data

sendMessage(c, id, data, tabId, frameId, destination) ==
    /\ call.st # "wait"
    /\ LET started == [st |-> "wait", from |-> c, id |-> id, data |-> data, tabId |-> tabId,
                       frameId |-> frameId, destination |-> destination,
                       activeAtCall |-> IF tabId = "active" THEN activeTab ELSE Undefined,
                       outcome |-> NoOutcome]
           route == Route(c, tabId, frameId, destination)
       IN  CASE route = "relay" ->
                  /\ call' = started
                  /\ hops' = <<Hop(c, "runtime", Undefined, Undefined,
                                         ForwardEnvelope(tabId, frameId, id, SentData(data), destination))>>
             [] route = "runtime" ->
                  /\ call' = started
                  /\ hops' = <<Hop(c, "runtime", Undefined, Undefined,
                                         Envelope(id, SentData(data), destination, NoSender))>>
             [] route = "tabs" ->
                  IF tabId = "active" /\ activeTab = NoTab
                    THEN \* getActiveTabId throws
                         /\ call' = [started EXCEPT !.st = "done", !.outcome = Rejected(NoActiveTabError)]
                         /\ hops' = <<>>
                    ELSE /\ call' = started
                         /\ hops' = <<Hop(c, "tabs", IF tabId = "active" THEN activeTab ELSE tabId, frameId,
                                         Envelope(id, SentData(data), destination, NoSender))>>
    /\ log' = <<>>
    /\ UNCHANGED <<listenersMap, pasiveListenersMap, disposers, aborted, thrown, activeTab>>

ClassifyErrorAsData(id, res) ==
    CASE res.kind = "reject" -> Rejected(res.error)
      [] res.kind = "null" -> Rejected(AmbiguousListenerError(id))
      [] res.kind = "undefined" -> Rejected(NoListenerError(id))
      [] res.kind = "error" -> Resolved(0)
      [] res.kind = "data" -> Resolved(res.data)

ClassifyUndefinedAsData(id, res) ==
    CASE res.kind = "reject" -> Rejected(res.error)
      [] res.kind = "null" -> Rejected(AmbiguousListenerError(id))
      [] res.kind = "undefined" -> Resolved(0)
      [] res.kind = "error" -> Rejected(deserializeError(res.error))
      [] res.kind = "data" -> Resolved(res.data)

ClassifyMergedSentinels(id, res) ==
    CASE res.kind = "reject" -> Rejected(res.error)
      [] res.kind = "null" -> Rejected(AmbiguousListenerError(id))
      [] res.kind = "undefined" -> Rejected(AmbiguousListenerError(id))
      [] res.kind = "error" -> Rejected(deserializeError(res.error))
      [] res.kind = "data" -> Resolved(res.data)

\* how sendMessage reads the transport's answer
Classify(id, res) ==
    CASE res.kind = "reject" -> Rejected(res.error)
      [] res.kind = "null" -> Rejected(AmbiguousListenerError(id))
      [] res.kind = "undefined" -> Rejected(NoListenerError(id))
      [] res.kind = "error" -> Rejected(deserializeError(res.error))
      [] res.kind = "data" -> Resolved(res.data)

\* the await of the transport call returns
sendMessageSettle ==
    /\ call.st = "wait"
    /\ hops[1].resp # NoResp
    /\ call' = [call EXCEPT !.st = "done", !.outcome = Classify(call.id, hops[1].resp)]
    /\ UNCHANGED <<listenersMap, pasiveListenersMap, disposers, aborted, thrown, activeTab, hops, log>>

(***************************************************************************)
(* webextHandleMessage: the inbound dispatch routine                       *)
(***************************************************************************)
\* one invocation of a callback: what it was given (id, data, sender,
\* originalSender), what it did, and where it stood in its dispatch (the idx-th
\* of total observers, before the listener found for the channel)
EntryOriginalIsSender(r, kind, cb, message, sender, k, does, idx, total, listener) ==
    [ctx |-> r, kind |-> kind, cb |-> cb, id |-> message.id, data |-> message.data,
     sender |-> sender, originalSender |-> sender, destination |-> message.destination,
     hop |-> k, does |-> does, idx |-> idx, total |-> total, listener |-> listener]

Entry(r, kind, cb, message, sender, k, does, idx, total, listener) ==
    [ctx |-> r, kind |-> kind, cb |-> cb, id |-> message.id, data |-> message.data,
     sender |-> sender, originalSender |-> message.sender, destination |-> message.destination,
     hop |-> k, does |-> does, idx |-> idx, total |-> total, listener |-> listener]

Returns(v) == [kind |-> "return", value |-> v]
Throws(e) == [kind |-> "throw", error |-> e]
\* the handler returned a promise that rejects later
Rejects(e) == [kind |-> "reject", error |-> e]

FirstThrower(cbs, throwers) ==
    IF \E i \in 1..Len(cbs) : cbs[i] \in throwers
      THEN CHOOSE i \in 1..Len(cbs) : cbs[i] \in throwers /\ \A j \in 1..(i-1) : cbs[j] \notin throwers
      ELSE 0

RunPassiveUncaught(cbs, throwers) ==
    IF FirstThrower(cbs, throwers) = 0
      THEN [ran |-> cbs, escaped |-> FALSE]
      ELSE [ran |-> SubSeq(cbs, 1, FirstThrower(cbs, throwers)), escaped |-> TRUE]

\* the try/catch around each passive listener: every one runs, nothing escapes
RunPassive(cbs, throwers) == [ran |-> cbs, escaped |-> FALSE]

PassiveEntriesReversed(r, ran, throwers, message, sender, k, total, listener) ==
    [i \in 1..Len(ran) |->
        Entry(r, "passive", ran[Len(ran) + 1 - i], message, sender, k,
              IF ran[Len(ran) + 1 - i] \in throwers THEN Throws(NewError(<<"observer failed">>, <<>>)) ELSE Returns(0),
              i, total, listener)]

\* for (const cb of passiveListeners): one invocation per observer, in the Set's order
PassiveEntries(r, ran, throwers, message, sender, k, total, listener) ==
    [i \in 1..Len(ran) |->
        Entry(r, "passive", ran[i], message, sender, k,
              IF ran[i] \in throwers THEN Throws(NewError(<<"observer failed">>, <<>>)) ELSE Returns(0),
              i, total, listener)]

NoFilter(r, message) == FALSE

\* the destination filter: TRUE when the envelope is not for this context
FilteredOut(r, message) ==
    \/ message.destination = "sidebar" /\ ~isSidepanel(r)
    \/ message.destination = "content-script" /\ ~isContentScript(r)

HandlerResponseUncaught(does) ==
    IF does.kind = "return" THEN RespData(does.value)
    ELSE IF does.kind = "throw" THEN RespReject(does.error)
    ELSE RespError(serializeError(IF does.error.isError THEN does.error
                                  ELSE NewError(<<"Unknown error">>, does.error.cause)))

\* what the exclusive handler's failure becomes on the wire
HandlerResponse(does) ==
    IF does.kind = "return"
      THEN RespData(does.value)
      ELSE RespError(serializeError(IF does.error.isError THEN does.error
                                    ELSE NewError(<<"Unknown error">>, does.error.cause)))

TargetTabUnchecked(f, sender) ==
    IF f.tabId = "sender" THEN [ok |-> TRUE, tab |-> sender.tab]
    ELSE IF f.tabId = "active" THEN [ok |-> TRUE, tab |-> activeTab]
    ELSE [ok |-> TRUE, tab |-> f.tabId]

TargetTabUncaught(f, sender) ==
    IF f.tabId = "sender" THEN [ok |-> TRUE, tab |-> IF sender.tab = NoTab THEN Undefined ELSE sender.tab]
    ELSE IF f.tabId = "active" THEN [ok |-> TRUE, tab |-> IF activeTab = NoTab THEN Undefined ELSE activeTab]
    ELSE [ok |-> TRUE, tab |-> f.tabId]

\* the relay's effective target tab: a tab, Undefined, or an error
TargetTab(f, sender) ==
    IF f.tabId = "sender"
      THEN (IF sender.tab = NoTab THEN [ok |-> FALSE, error |-> SenderTabTypeError]
            ELSE [ok |-> TRUE, tab |-> sender.tab])
    ELSE IF f.tabId = "active"
      THEN (IF activeTab = NoTab THEN [ok |-> FALSE, error |-> NoActiveTabError]
            ELSE [ok |-> TRUE, tab |-> activeTab])
    ELSE [ok |-> TRUE, tab |-> f.tabId]

TargetFrameOfSender(f, sender) == sender.frameId

\* frameId === 'sender' ? sender.frameId : frameId
TargetFrame(f, sender) == IF f.frameId = "sender" THEN sender.frameId ELSE f.frameId

ForwardedSenderDropped(sender) == NoSender

\* the sender the relay embeds in the forwarded envelope
ForwardedSender(sender) == sender

BroadcastsToContent(f, tab) == f.destination = "content-script"

\* destination === 'content-script' && targetTabId === undefined
Broadcasts(f, tab) == f.destination = "content-script" /\ tab = Undefined

\* handleForwardMessage(message, sender) in the background, claiming the envelope
handleForwardMessage(k, r) ==
    LET h == hops[k]
        f == h.env.data
        t == TargetTab(f, h.sender)
        claimed == [h EXCEPT !.pending = @ \ {r}, !.claimed = @ \cup {r}]
        forwarded == Envelope(f.id, f.data, f.destination, ForwardedSender(h.sender))
    IN  IF ~t.ok
          THEN \E res \in sendResponse(claimed, RespReject(t.error)) :
                  hops' = [hops EXCEPT ![k] = [claimed EXCEPT !.relay = "done", !.resp = res]]
          ELSE hops' = <<[claimed EXCEPT !.relay = "wait"],
                         IF Broadcasts(f, t.tab)
                           THEN Hop("bg", "runtime", Undefined, Undefined, forwarded)
                           ELSE Hop("bg", "tabs", t.tab, TargetFrame(f, h.sender), forwarded)>>

NeverLacksMarker(message) == FALSE

\* !message || typeof message !== 'object' || message[MessageIdentifierKey] !== 1
LacksMarker(message) == message.type # "object" \/ message.marker # MessageIdentifier

\* webextHandleMessage(message, sender, sendResponse) run by the host in context r
webextHandleMessage(k, r, throwers, does) ==
    /\ k \in 1..Len(hops)
    /\ r \in hops[k].pending
    /\ LET h == hops[k]
           message == h.env
           void == [h EXCEPT !.pending = @ \ {r}]
           cbs == GetPassive(r, message.id)
           p == RunPassive(cbs, throwers)
           listener == Get(listenersMap, r, message.id)
       IN  IF LacksMarker(message)
             THEN hops' = [hops EXCEPT ![k] = void] /\ UNCHANGED log
           ELSE IF isBackground(r) /\ message.id = BackgroundForwardMessageId
             THEN handleForwardMessage(k, r) /\ UNCHANGED log
           ELSE IF FilteredOut(r, message)
             THEN hops' = [hops EXCEPT ![k] = void] /\ UNCHANGED log
           ELSE IF p.escaped \/ listener = None
             THEN /\ hops' = [hops EXCEPT ![k] = void]
                  /\ log' = log \o PassiveEntries(r, p.ran, throwers, message, h.sender, k, Len(cbs), listener)
           ELSE /\ hops' = [hops EXCEPT ![k] = [void EXCEPT !.claimed = @ \cup {r},
                                                  !.running = @ \cup {[ctx |-> r, does |-> does]}]]
                /\ log' = log \o PassiveEntries(r, p.ran, throwers, message, h.sender, k, Len(cbs), listener)
                             \o <<Entry(r, "exclusive", listener, message, h.sender, k, does,
                                        Len(cbs) + 1, Len(cbs), listener)>>
    /\ UNCHANGED <<listenersMap, pasiveListenersMap, disposers, aborted, thrown, activeTab, call>>

\* what an observer that uses the sendResponse it was handed answers with
ManualAnswer == RespData(21)

\* webextHandleMessage where the observers are the manual listeners, each
\* handed sendResponse: answers tells whether one of them calls it
webextHandleMessageManual(k, r, throwers, does, answers) ==
    /\ k \in 1..Len(hops)
    /\ r \in hops[k].pending
    /\ LET h == hops[k]
           message == h.env
           void == [h EXCEPT !.pending = @ \ {r}]
           cbs == GetPassive(r, message.id)
           p == RunPassive(cbs, throwers)
           listener == Get(listenersMap, r, message.id)
           answered == [void EXCEPT !.claimed = @ \cup {r}]
       IN  IF LacksMarker(message)
             THEN hops' = [hops EXCEPT ![k] = void] /\ UNCHANGED log
           ELSE IF isBackground(r) /\ message.id = BackgroundForwardMessageId
             THEN handleForwardMessage(k, r) /\ UNCHANGED log
           ELSE IF FilteredOut(r, message)
             THEN hops' = [hops EXCEPT ![k] = void] /\ UNCHANGED log
           ELSE /\ answers => cbs # <<>>
                /\ log' = log \o PassiveEntries(r, p.ran, throwers, message, h.sender, k, Len(cbs), listener)
                             \o (IF listener = None THEN <<>>
                                 ELSE <<Entry(r, "exclusive", listener, message, h.sender, k, does,
                                              Len(cbs) + 1, Len(cbs), listener)>>)
                /\ \E res \in (IF answers THEN sendResponse(answered, ManualAnswer) ELSE {h.resp}) :
                      hops' = [hops EXCEPT ![k] =
                                 [(IF answers THEN answered ELSE void) EXCEPT
                                     !.resp = res,
                                     !.claimed = IF listener = None THEN @ ELSE @ \cup {r},
                                     !.running = IF listener = None THEN @
                                                 ELSE @ \cup {[ctx |-> r, does |-> does]}]]
    /\ UNCHANGED <<listenersMap, pasiveListenersMap, disposers, aborted, thrown, activeTab, call>>

\* the exclusive handler's promise settles and the routine answers
handlerSettles(k, r) ==
    /\ k \in 1..Len(hops)
    /\ \E run \in hops[k].running :
          /\ run.ctx = r
          /\ \E res \in sendResponse(hops[k], HandlerResponse(run.does)) :
                hops' = [hops EXCEPT ![k] = [@ EXCEPT !.running = @ \ {run}, !.resp = res]]
    /\ UNCHANGED <<listenersMap, pasiveListenersMap, disposers, aborted, thrown, activeTab, call, log>>

PropagatedAsNothing(resp) == RespUndefined

\* resolve(browser.tabs.sendMessage(...)): the relay's promise takes the inner answer
Propagated(resp) == resp

\* the relay's tabs.sendMessage / runtime.sendMessage settles: resolve(...) passes it on
relaySettles ==
    /\ Len(hops) = 2
    /\ hops[1].relay = "wait"
    /\ hops[2].resp # NoResp
    /\ \E res \in sendResponse(hops[1], Propagated(hops[2].resp)) :
          hops' = [hops EXCEPT ![1] = [@ EXCEPT !.relay = "done", !.resp = res]]
    /\ UNCHANGED <<listenersMap, pasiveListenersMap, disposers, aborted, thrown, activeTab, call, log>>

\* every listener returned without answering: the host resolves the call with undefined
noListenerAnswers(k) ==
    /\ k \in 1..Len(hops)
    /\ hops[k].resp = NoResp
    /\ hops[k].pending = {}
    /\ hops[k].claimed = {}
    /\ hops' = [hops EXCEPT ![k] = [@ EXCEPT !.resp = RespUndefined]]
    /\ UNCHANGED <<listenersMap, pasiveListenersMap, disposers, aborted, thrown, activeTab, call, log>>

\* a message of no protocol: null, a string, an object without the marker
\* (marker 0) or with another value for it, whatever else it carries
ForeignMessage(type, marker, id, data) ==
    [type |-> type, marker |-> marker, id |-> id, data |-> data,
     destination |-> Undefined, sender |-> NoSender]

\* other code of the extension calls runtime.sendMessage(message) in context c
foreignMessage(c, message) ==
    /\ call.st # "wait"
    /\ call' = IdleCall
    /\ hops' = <<Hop(c, "runtime", Undefined, Undefined, message)>>
    /\ log' = <<>>
    /\ UNCHANGED <<listenersMap, pasiveListenersMap, disposers, aborted, thrown, activeTab>>

\* the user switches tabs, or closes the last one
switchTab(t) ==
    /\ t # activeTab
    /\ activeTab' = t
    /\ UNCHANGED <<listenersMap, pasiveListenersMap, disposers, aborted, thrown, call, hops, log>>

(***************************************************************************)
(* Stream session: createStream over one port                              *)
(***************************************************************************)
Ends == {"opener", "acceptor"}

Other(e) == IF e = "opener" THEN "acceptor" ELSE "opener"

StreamChannels == {"feed"}

MaxSends == 3

\* the payloads the sending side sends, in this order
Payloads == 1..MaxSends

\* what crosses the port: the connection event, the two frame kinds, the disconnect event
ConnectEvent(name) == [ev |-> "connect", key |-> name, val |-> <<>>]
DataFrame(msg) == [ev |-> "message", key |-> "data", val |-> <<msg>>]
ErrorFrame(error) == [ev |-> "message", key |-> "error", val |-> <<serializeError(error)>>]
DisconnectEvent == [ev |-> "disconnect", key |-> "", val |-> <<>>]

NoPort == [state |-> "none", name |-> "", inbox |-> <<>>]

\* port.postMessage / port.disconnect at end e: the event queues up for the other end
Post(p, e, frame) == [p EXCEPT ![Other(e)].inbox = Append(@, frame)]

DisconnectedPortError == NewError(<<"Attempting to use a disconnected port object">>, <<>>)

NoSession ==
    [exists |-> FALSE, connected |-> FALSE, aborted |-> FALSE, abortEvents |-> 0,
     factory |-> None, factoryCalls |-> 0, regs |-> <<>>, closeListeners |-> {},
     observing |-> FALSE, obsFrom |-> 0, observed |-> <<>>, dispatched |-> <<>>, errorFrames |-> 0,
     iterSt |-> "none", iterArg |-> <<>>, iterFrom |-> 0, startFrom |-> 0, queue |-> <<>>,
     yielded |-> <<>>, raised |-> <<>>,
     sent |-> <<>>, postedNotLive |-> FALSE, closeCalled |-> FALSE,
     disconnects |-> 0, closedAgain |-> FALSE, consumerAtClose |-> "none", errorCalled |-> <<>>, consumerAtError |-> "none"]

\* the session createStream returns: connected = true, a fresh AbortController
createStream == [NoSession EXCEPT !.exists = TRUE, !.connected = TRUE]

\* AbortController#abort: the abort event is dispatched the first time only
abort(s) ==
    IF s.aborted THEN s ELSE [s EXCEPT !.aborted = TRUE, !.abortEvents = @ + 1]

onDisconnectKeepsSignal(s) == [s EXCEPT !.connected = FALSE]

\* the port.onDisconnect listener createStream installs
onDisconnect(s) == abort([s EXCEPT !.connected = FALSE])

\* iter's three listeners are installed from the first pull until the generator ends
Registered(s) == s.iterSt \in {"waiting", "suspended"}

QueueItem(type, value) == [type |-> type, value |-> value]

shiftSwallowsError(s) ==
    LET item == Head(s.queue)
        rest == Tail(s.queue)
    IN  CASE item.type = "DATA" ->
               [s EXCEPT !.queue = rest, !.yielded = Append(@, item.value[1]), !.iterSt = "suspended"]
          [] item.type = "DONE" -> [s EXCEPT !.queue = rest, !.iterSt = "done"]
          [] item.type = "ERROR" -> [s EXCEPT !.queue = rest, !.iterSt = "done"]

\* iter's inner loop taking the queue's first item: yield, return or throw
shift(s) ==
    LET item == Head(s.queue)
        rest == Tail(s.queue)
    IN  CASE item.type = "DATA" ->
               [s EXCEPT !.queue = rest, !.yielded = Append(@, item.value[1]), !.iterSt = "suspended"]
          [] item.type = "DONE" -> [s EXCEPT !.queue = rest, !.iterSt = "done"]
          [] item.type = "ERROR" -> [s EXCEPT !.queue = rest, !.raised = item.value, !.iterSt = "threw"]

enqueueDropsWhenBusy(s, item) ==
    IF s.iterSt = "waiting" THEN shift([s EXCEPT !.queue = Append(@, item)]) ELSE s

\* iter's enqueue: push, and resume the generator when it awaits an item
enqueue(s, item) ==
    LET pushed == [s EXCEPT !.queue = Append(@, item)]
    IN  IF s.iterSt = "waiting" THEN shift(pushed) ELSE pushed

\* one call of onMessage, onError or onClose of a session: the kind, the
\* callback given, whether the function it returned has been called, and
\* what the callback has been called with through it
Registration(kind, cb) == [kind |-> kind, cb |-> cb, disposed |-> FALSE, got |-> <<>>]

Delivery(kind, n) == [kind |-> kind, n |-> n]

\* the port still holds the listener registration i added: its own wrapper
\* for onMessage and onError, the callback itself for onClose
Listening(s, i) ==
    IF s.regs[i].kind = "close" THEN s.regs[i].cb \in s.closeListeners ELSE ~s.regs[i].disposed

\* the port event reaches the listeners of its kind
tell(s, kind, n) ==
    [s EXCEPT !.regs = [i \in 1..Len(s.regs) |->
                          IF s.regs[i].kind = kind /\ Listening(s, i)
                            THEN [s.regs[i] EXCEPT !.got = Append(@, Delivery(kind, n))]
                            ELSE s.regs[i]]]

\* the port.onMessage listeners of a session: the onMessage observer, then iter's
portOnMessage(s0, f) ==
    LET s == IF f.key = "data" THEN tell(s0, "message", f.val[1]) ELSE tell(s0, "error", 0)
        seen == IF f.key = "data" THEN [s EXCEPT !.dispatched = Append(@, f.val[1])]
                ELSE [s EXCEPT !.errorFrames = @ + 1]
        told == IF f.key = "data" /\ seen.observing
                  THEN [seen EXCEPT !.observed = Append(@, f.val[1])]
                  ELSE seen
    IN  IF ~Registered(told) THEN told
        ELSE IF f.key = "data" THEN enqueue(told, QueueItem("DATA", f.val))
        ELSE enqueue(told, QueueItem("ERROR", <<deserializeError(f.val[1])>>))

portOnDisconnectDropsDone(s) == onDisconnect(s)

\* the port.onDisconnect listeners of a session: createStream's, the onClose
\* observers, iter's onClose
portOnDisconnect(s) ==
    LET closed == tell(onDisconnect(s), "close", 0)
    IN  IF Registered(closed) THEN enqueue(closed, QueueItem("DONE", <<>>)) ELSE closed

StreamDisposer(channel, callback) == [channel |-> channel, callback |-> callback]

StreamDuplicateReplaces(channel, callback) == listeners' = [listeners EXCEPT ![channel] = callback]

\* a thrown duplicate-handler error: the registry is left as it is
StreamDuplicateKeeps(channel, callback) == listeners' = listeners

\* onOpenStream.<channel>(callback): a second factory for a channel is refused
onOpenStreamImpl(channel, callback) ==
    /\ IF listeners[channel] # None
         THEN /\ StreamDuplicateKeeps(channel, callback)
              /\ streamThrown' = "DuplicateHandler"
              /\ UNCHANGED streamDisposers
         ELSE /\ listeners' = [listeners EXCEPT ![channel] = callback]
              /\ streamDisposers' = streamDisposers \cup {StreamDisposer(channel, callback)}
              /\ streamThrown' = None
    /\ UNCHANGED <<streams, ports>>

\* the function onOpenStream returned: listeners.delete(channel)
unregisterStream(d) ==
    /\ d \in streamDisposers
    /\ listeners' = [listeners EXCEPT ![d.channel] = None]
    /\ streamThrown' = None
    /\ UNCHANGED <<streams, ports, streamDisposers>>

\* openStream.<channel>(): connect a port named after the channel and wrap it
openStreamImpl(channel) ==
    /\ ports["opener"].state = "none"
    /\ ports' = [ports EXCEPT !["opener"] = [state |-> "open", name |-> channel, inbox |-> <<>>],
                              !["acceptor"].inbox = <<ConnectEvent(channel)>>]
    /\ streams' = [streams EXCEPT !["opener"] = createStream]
    /\ UNCHANGED listeners

webextHandleStreamUnmatched(channel) ==
    /\ ports' = [ports EXCEPT !["acceptor"] = [state |-> "open", name |-> channel, inbox |-> Tail(@.inbox)]]
    /\ streams' = [streams EXCEPT !["acceptor"] =
                      [createStream EXCEPT !.factory = listeners[channel], !.factoryCalls = 1]]
    /\ UNCHANGED listeners

\* runtime.onConnect: the factory registered for the port's name gets a session
webextHandleStream(channel) ==
    /\ ports' = [ports EXCEPT !["acceptor"] = [state |-> "open", name |-> channel, inbox |-> Tail(@.inbox)]]
    /\ streams' = IF listeners[channel] = None
                    THEN streams
                    ELSE [streams EXCEPT !["acceptor"] =
                            [createStream EXCEPT !.factory = listeners[channel],
                                                 !.factoryCalls = streams["acceptor"].factoryCalls + 1]]
    /\ UNCHANGED listeners

\* the host hands end e the next event of its port
deliver(e) ==
    /\ ports[e].inbox # <<>>
    /\ LET f == Head(ports[e].inbox)
       IN  CASE f.ev = "connect" -> webextHandleStream(f.key)
             [] f.ev = "message" ->
                  /\ ports' = [ports EXCEPT ![e].inbox = Tail(@)]
                  /\ streams' = IF ports[e].state = "open" /\ streams[e].exists
                                  THEN [streams EXCEPT ![e] = portOnMessage(@, f)]
                                  ELSE streams
                  /\ UNCHANGED listeners
             [] f.ev = "disconnect" ->
                  /\ ports' = [ports EXCEPT ![e].inbox = Tail(@),
                                            ![e].state = IF @ = "open" THEN "disconnected" ELSE @]
                  /\ streams' = IF ports[e].state = "open" /\ streams[e].exists
                                  THEN [streams EXCEPT ![e] = portOnDisconnect(@)]
                                  ELSE streams
                  /\ UNCHANGED listeners

\* stream.onMessage(callback)
onMessageStream(e) ==
    /\ streams[e].exists
    /\ ~streams[e].observing
    /\ streams' = [streams EXCEPT ![e].observing = TRUE, ![e].obsFrom = Len(streams[e].dispatched)]
    /\ UNCHANGED <<listeners, ports>>

MaxObservers == 3

ObserverKinds == {"message", "error", "close"}
ObserverCallbacks == {"a", "b"}

\* stream.onMessage(cb), stream.onError(cb), stream.onClose(cb): addListener
\* of a new wrapper, or of cb itself for onClose, which the port holds once
observeStream(e, kind, cb) ==
    /\ streams[e].exists
    /\ Len(streams[e].regs) < MaxObservers
    /\ streams' = [streams EXCEPT ![e].regs = Append(@, Registration(kind, cb)),
                                  ![e].closeListeners = IF kind = "close" THEN @ \cup {cb} ELSE @]
    /\ UNCHANGED <<listeners, ports>>

\* the function registration i returned: removeListener of what it added
disposeObserver(e, i) ==
    /\ i \in 1..Len(streams[e].regs)
    /\ ~streams[e].regs[i].disposed
    /\ streams' = [streams EXCEPT ![e].regs[i].disposed = TRUE,
                                  ![e].closeListeners = IF streams[e].regs[i].kind = "close"
                                                          THEN @ \ {streams[e].regs[i].cb} ELSE @]
    /\ UNCHANGED <<listeners, ports>>

\* stream.send(msg)
send(e, msg) ==
    /\ streams[e].exists
    /\ Len(streams[e].sent) < MaxSends
    /\ IF streams[e].connected
         THEN /\ ports' = Post(ports, e, DataFrame(msg))
              /\ streams' = [streams EXCEPT ![e].sent = Append(@, msg)]
         ELSE UNCHANGED <<streams, ports>>
    /\ UNCHANGED listeners

closedKeepsSignal(s) == [s EXCEPT !.connected = FALSE]

iterStartRevives(s, open) ==
    LET b == [s EXCEPT !.startFrom = Len(s.dispatched), !.connected = TRUE]
    IN  IF s.iterArg = <<>> THEN [b EXCEPT !.iterSt = "waiting"]
        ELSE IF open
          THEN [b EXCEPT !.iterSt = "waiting", !.sent = Append(@, s.iterArg[1]),
                         !.postedNotLive = @ \/ ~s.connected]
          ELSE [b EXCEPT !.iterSt = "threw", !.raised = <<DisconnectedPortError>>]

\* the generator body up to its first await: the three listeners, then the
\* initial message if one was given; open: the port accepts a postMessage
iterStart(s, open) ==
    LET b == [s EXCEPT !.startFrom = Len(s.dispatched)]
    IN  IF s.iterArg = <<>> THEN [b EXCEPT !.iterSt = "waiting"]
        ELSE IF open
          THEN [b EXCEPT !.iterSt = "waiting", !.sent = Append(@, s.iterArg[1]),
                         !.postedNotLive = @ \/ ~s.connected]
          ELSE [b EXCEPT !.iterSt = "threw", !.raised = <<DisconnectedPortError>>]

\* what iterStart posts
iterStartFrames(s, open) == IF s.iterArg # <<>> /\ open THEN <<DataFrame(s.iterArg[1])>> ELSE <<>>

\* the connected = false and ac.abort() of close()
closed(s) == abort([s EXCEPT !.connected = FALSE])

\* what a listener of the session's signal may do when the abort event is
\* dispatched: nothing, or the first pull of a sequence iter() returned
AbortListenerPulls(s) == IF s.iterSt = "created" THEN {FALSE, TRUE} ELSE {FALSE}

closeUnguarded(e) ==
    /\ streams[e].exists
    /\ streams' = [streams EXCEPT ![e] = [closed(@) EXCEPT !.closeCalled = TRUE, !.disconnects = @ + 1]]
    /\ ports' = [Post(ports, e, DisconnectEvent) EXCEPT ![e].state = "disconnected"]
    /\ UNCHANGED listeners

\* stream.close(): the abort event is dispatched, with the caller's abort
\* listeners run, before port.disconnect()
close(e) ==
    /\ streams[e].exists
    /\ IF streams[e].connected
         THEN \E pulls \in AbortListenerPulls(streams[e]) :
                 LET s == [closed(streams[e]) EXCEPT !.closeCalled = TRUE, !.disconnects = @ + 1,
                                                     !.consumerAtClose = streams[Other(e)].iterSt]
                     frames == IF pulls THEN iterStartFrames(s, TRUE) ELSE <<>>
                     posted == IF frames = <<>> THEN ports ELSE Post(ports, e, frames[1])
                 IN  /\ streams' = [streams EXCEPT ![e] = IF pulls THEN iterStart(s, TRUE) ELSE s]
                     /\ ports' = [Post(posted, e, DisconnectEvent) EXCEPT ![e].state = "disconnected"]
         ELSE /\ streams' = [streams EXCEPT ![e].closedAgain = TRUE]
              /\ UNCHANGED ports
    /\ UNCHANGED listeners

\* stream.error(error): the error frame, then close()
error(e, err) ==
    /\ streams[e].exists
    /\ streams[e].errorCalled = <<>>
    /\ IF streams[e].connected
         THEN /\ streams' = [streams EXCEPT ![e] = [closed(@) EXCEPT
                                     !.disconnects = @ + 1,
                                     !.errorCalled = <<err>>,
                                     !.consumerAtError = streams[Other(e)].iterSt]]
              /\ ports' = [Post(Post(ports, e, ErrorFrame(err)), e, DisconnectEvent)
                             EXCEPT ![e].state = "disconnected"]
         ELSE UNCHANGED <<streams, ports>>
    /\ UNCHANGED listeners

\* stream.iter(...args): the generator object; its body has not started
iter(e, args) ==
    /\ streams[e].exists
    /\ streams[e].iterSt = "none"
    /\ streams' = [streams EXCEPT ![e].iterSt = "created", ![e].iterArg = args,
                                  ![e].iterFrom = Len(streams[e].dispatched)]
    /\ UNCHANGED <<listeners, ports>>

\* the consumer's next(): the first one starts the body (listeners, initial
\* message, await); a later one takes the next queued item or awaits one
next(e) ==
    /\ streams[e].iterSt \in {"created", "suspended"}
    /\ IF streams[e].iterSt = "created"
         THEN LET open == ports[e].state = "open"
                  frames == iterStartFrames(streams[e], open)
              IN  /\ streams' = [streams EXCEPT ![e] = iterStart(@, open)]
                  /\ ports' = IF frames = <<>> THEN ports ELSE Post(ports, e, frames[1])
         ELSE /\ streams' = [streams EXCEPT ![e] = IF @.queue = <<>>
                                                     THEN [@ EXCEPT !.iterSt = "waiting"]
                                                     ELSE shift(@)]
              /\ UNCHANGED ports
    /\ UNCHANGED listeners

\* the consumer leaves its for-await loop early: return() on a sequence that
\* is not running ends it, and the using declarations of a started body
\* dispose of iter's three listeners
iterReturn(e) ==
    /\ streams[e].iterSt \in {"created", "suspended"}
    /\ streams' = [streams EXCEPT ![e].iterSt = "returned"]
    /\ UNCHANGED <<listeners, ports>>

StreamInit ==
    /\ listeners = [channel \in StreamChannels |-> None]
    /\ streams = [e \in Ends |-> NoSession]
    /\ ports = [e \in Ends |-> NoPort]
    /\ streamDisposers = {}
    /\ streamThrown = None

StreamError == NewError(<<"broken">>, <<>>)

\* the host's event loop dispatching the next port event of end e
HostDelivers(e) == deliver(e) /\ UNCHANGED <<msgVars, streamRegVars, storageVars>>

\* the for-await loop of the opening side asking for the next item
ConsumerPulls == next("opener") /\ UNCHANGED <<msgVars, streamRegVars, storageVars>>

StreamNext ==
    \/ /\ listeners["feed"] = None
       /\ onOpenStreamImpl("feed", "factory")
       /\ UNCHANGED <<msgVars, storageVars>>
    \/ openStreamImpl("feed") /\ UNCHANGED <<msgVars, streamRegVars, storageVars>>
    \/ \E e \in Ends : HostDelivers(e)
    \/ onMessageStream("opener") /\ UNCHANGED <<msgVars, streamRegVars, storageVars>>
    \/ \E msg \in Payloads :
          /\ msg = Len(streams["acceptor"].sent) + 1
          /\ send("acceptor", msg)
          /\ UNCHANGED <<msgVars, streamRegVars, storageVars>>
    \/ \E e \in Ends : streams[e].connected /\ close(e) /\ UNCHANGED <<msgVars, streamRegVars, storageVars>>
    \/ error("acceptor", StreamError) /\ UNCHANGED <<msgVars, streamRegVars, storageVars>>
    \/ \E args \in {<<>>, <<1>>} : iter("opener", args) /\ UNCHANGED <<msgVars, streamRegVars, storageVars>>
    \/ ConsumerPulls

(***************************************************************************)
(* The messaging system                                                    *)
(***************************************************************************)
Handlers == {"h1", "h2"}
Observers == {"p1", "p2"}
Signals == {"s1"}
\* options.signal: absent, or one of the signals
SignalOptions == {None} \cup Signals
Data == {7}
HandlerOutcomes ==
    {Returns(14), Throws(NewError(<<"boom">>, <<>>)), Throws(Thrown("oops"))}
TabIds == {Undefined, "t2", "active", "sender"}
FrameIds == {Undefined, "sender", "f0"}
Destinations == {Undefined, "sidebar", "content-script"}

ForeignMessages ==
    {ForeignMessage("null", 0, Undefined, 0),
     ForeignMessage("string", 0, Undefined, 0),
     ForeignMessage("object", 0, "ping", 7),
     ForeignMessage("object", 2, "ping", 7),
     ForeignMessage("object", 0, BackgroundForwardMessageId,
                    [tabId |-> "t2", frameId |-> Undefined, id |-> "ping", data |-> 7,
                     destination |-> Undefined])}

MsgInit ==
    /\ listenersMap = [c \in Ctx |-> [id \in Channels |-> None]]
    /\ pasiveListenersMap = [c \in Ctx |-> [id \in Channels |-> <<>>]]
    /\ disposers = {}
    /\ aborted = {}
    /\ thrown = None
    /\ activeTab = "t2"
    /\ call = IdleCall
    /\ hops = <<>>
    /\ log = <<>>

\* the observers that can throw and the outcomes a handler can have when
\* context r is handed an envelope for id: those of the callbacks registered there
ObserversAt(r, id) == {cb \in Observers : InSeq(GetPassive(r, id), cb)}

OutcomesAt(r, id) == IF Get(listenersMap, r, id) = None THEN {Returns(14)} ELSE HandlerOutcomes

\* the steps of a call once it is sent
CallSteps ==
    \/ \E k \in 1..Len(hops) : \E r \in hops[k].pending :
          \E throwers \in SUBSET ObserversAt(r, hops[k].env.id), does \in OutcomesAt(r, hops[k].env.id) :
             webextHandleMessage(k, r, throwers, does)
    \/ \E k \in 1..2, r \in Ctx : handlerSettles(k, r)
    \/ relaySettles
    \/ \E k \in 1..2 : noListenerAnswers(k)
    \/ sendMessageSettle

MsgNext ==
    \/ \E c \in {"bg", "sp", "csB"} : onMessageExclusive(c, "ping", "h1", None) /\ UNCHANGED <<streamVars, storageVars>>
    \/ \E cb \in Observers :
          /\ cb = "p2" => InSeq(pasiveListenersMap["csB"]["ping"], "p1")
          /\ onMessagePassive("csB", "ping", cb, None)
          /\ UNCHANGED <<streamVars, storageVars>>
    \/ \E c \in {"csA", "sp"}, id \in {"ping"}, data \in Data, tabId \in TabIds, frameId \in FrameIds,
          destination \in Destinations :
             /\ frameId = "f0" => (tabId = "t2" /\ destination = Undefined)
             /\ sendMessage(c, id, data, tabId, frameId, destination)
             /\ UNCHANGED <<streamVars, storageVars>>
    \/ CallSteps /\ UNCHANGED <<streamVars, storageVars>>
    \/ \E t \in {"t2", NoTab} : switchTab(t) /\ UNCHANGED <<streamVars, storageVars>>
    \/ \E message \in ForeignMessages : foreignMessage("sp", message) /\ UNCHANGED <<streamVars, storageVars>>

(***************************************************************************)
(* The storage cache                                                       *)
(***************************************************************************)
StorageKeys == {"k1", "k2"}
StorageValues == {"v1", "v2"}
\* the notifications the host holds in flight at most
MaxChanges == 2

CacheObj(data, exists) == [data |-> data, exists |-> exists]

\* an empty store and an empty cache; what the store holds when the cache is
\* first asked is whatever the writes before that left
StorageInit ==
    /\ storage = [k \in {} |-> "v1"]
    /\ changes = <<>>
    /\ cache = [k \in {} |-> CacheObj(Undefined, FALSE)]
    /\ fetchingKeys = {}
    /\ fetches = {}
    /\ lastUpdate = {}
    /\ overtaken = {}

\* some context writes items; the host stores them and notifies of the keys
\* whose value changed, each entry carrying its newValue
setStorageLocal(items) ==
    LET changed == {k \in DOMAIN items : k \notin DOMAIN storage \/ storage[k] # items[k]} IN
    /\ Len(changes) < MaxChanges
    /\ storage' = [k \in DOMAIN storage \cup DOMAIN items |->
                      IF k \in DOMAIN items THEN items[k] ELSE storage[k]]
    /\ changes' = IF changed = {} THEN changes
                  ELSE Append(changes, [k \in changed |-> [hasNewValue |-> TRUE, newValue |-> items[k]]])
    /\ UNCHANGED <<cache, fetchingKeys, fetches, lastUpdate, overtaken>>

\* some context removes keys; the host notifies of those it held, with
\* entries that carry no newValue
removeStorageLocal(key) ==
    LET changed == key \cap DOMAIN storage IN
    /\ Len(changes) < MaxChanges
    /\ storage' = [k \in DOMAIN storage \ key |-> storage[k]]
    /\ changes' = IF changed = {} THEN changes
                  ELSE Append(changes, [k \in changed |-> [hasNewValue |-> FALSE, newValue |-> Undefined]])
    /\ UNCHANGED <<cache, fetchingKeys, fetches, lastUpdate, overtaken>>

\* #fetchStorage: one storage.local.get for the keys no fetch in flight covers
fetchStorage(keys) ==
    LET missingKeys == keys \ fetchingKeys IN
    IF missingKeys = {}
    THEN UNCHANGED <<fetchingKeys, fetches>>
    ELSE /\ fetchingKeys' = fetchingKeys \cup missingKeys
         /\ fetches' = fetches \cup {[keys |-> missingKeys, read |-> FALSE,
                                      data |-> [k \in {} |-> "v1"]]}

getData(keys) ==
    LET missingKeys == {key \in keys : key \notin DOMAIN cache} IN
    /\ IF missingKeys # {}
       THEN fetchStorage(missingKeys)
       ELSE UNCHANGED <<fetchingKeys, fetches>>
    /\ UNCHANGED <<storage, changes, cache, lastUpdate, overtaken>>

\* the host serving a get: the result holds the requested keys storage has now
hostReads(f) ==
    /\ ~f.read
    /\ fetches' = (fetches \ {f}) \cup
                     {[f EXCEPT !.read = TRUE,
                                !.data = [k \in f.keys \cap DOMAIN storage |-> storage[k]]]}
    /\ UNCHANGED <<storage, changes, cache, fetchingKeys, lastUpdate, overtaken>>

\* the then-callback of #fetchStorage
fetchResolves(f) ==
    /\ f.read
    /\ fetchingKeys' = fetchingKeys \ f.keys
    /\ cache' = [key \in DOMAIN cache \cup f.keys |->
                    IF key \in f.keys
                    THEN CacheObj(IF key \in DOMAIN f.data THEN f.data[key] ELSE Undefined,
                                  key \in DOMAIN f.data)
                    ELSE cache[key]]
    /\ lastUpdate' = f.keys
    /\ fetches' = fetches \ {f}
    /\ UNCHANGED <<storage, changes, overtaken>>

\* the storage.local.onChanged listener the constructor installs, handed the
\* oldest notification in flight
onChanged ==
    /\ changes # <<>>
    /\ LET change == Head(changes)
           keys == DOMAIN change IN
       /\ cache' = [key \in DOMAIN cache |->
                       IF key \in keys
                       THEN CacheObj(change[key].newValue, change[key].hasNewValue)
                       ELSE cache[key]]
       /\ lastUpdate' = keys
       /\ overtaken' = (overtaken \ (keys \cap DOMAIN cache)) \cup
                          {key \in keys \ DOMAIN cache :
                              \E f \in fetches : f.read /\ key \in f.keys}
    /\ changes' = Tail(changes)
    /\ UNCHANGED <<storage, fetchingKeys, fetches>>

StorageNext ==
    \/ \E keys \in SUBSET StorageKeys \ {{}} : getData(keys) /\ UNCHANGED <<msgVars, streamVars>>
    \/ \E f \in fetches : hostReads(f) /\ UNCHANGED <<msgVars, streamVars>>
    \/ \E f \in fetches : fetchResolves(f) /\ UNCHANGED <<msgVars, streamVars>>
    \/ \E S \in SUBSET StorageKeys \ {{}}, v \in StorageValues :
          setStorageLocal([k \in S |-> v]) /\ UNCHANGED <<msgVars, streamVars>>
    \/ \E key \in SUBSET StorageKeys \ {{}} : removeStorageLocal(key) /\ UNCHANGED <<msgVars, streamVars>>
    \/ onChanged /\ UNCHANGED <<msgVars, streamVars>>

Init == MsgInit /\ StreamInit /\ StorageInit

Spec == Init /\ [][MsgNext]_vars

\* requests to tab t2 alone, relayed for the content script and direct for
\* the side panel, with handlers in both frames of the tab
RelayNext ==
    \/ \E c \in {"csB", "csC"} : onMessageExclusive(c, "ping", "h1", None) /\ UNCHANGED <<streamVars, storageVars>>
    \/ \E frameId \in {Undefined, "sender", "f0"} :
          sendMessage("csA", "ping", 7, "t2", frameId, Undefined) /\ UNCHANGED <<streamVars, storageVars>>
    \/ \E frameId \in {Undefined, "f0"} :
          sendMessage("sp", "ping", 7, "t2", frameId, Undefined) /\ UNCHANGED <<streamVars, storageVars>>
    \/ CallSteps /\ UNCHANGED <<streamVars, storageVars>>

SpecRelay == Init /\ [][RelayNext]_vars

\* one content script whose observers come and go in any order, its handler,
\* and the requests to its tab, direct from the side panel and relayed for
\* another content script
ObserversNext ==
    \/ \E cb \in Observers : onMessagePassive("csB", "ping", cb, None) /\ UNCHANGED <<streamVars, storageVars>>
    \/ \E d \in disposers : Unregister(d) /\ UNCHANGED <<streamVars, storageVars>>
    \/ onMessageExclusive("csB", "ping", "h1", None) /\ UNCHANGED <<streamVars, storageVars>>
    \/ \E c \in {"sp", "csA"} :
          sendMessage(c, "ping", 7, "t2", Undefined, Undefined) /\ UNCHANGED <<streamVars, storageVars>>
    \/ CallSteps /\ UNCHANGED <<streamVars, storageVars>>

SpecObservers == Init /\ [][ObserversNext]_vars

\* every way the handler can end: returning, throwing at once, rejecting later
AllHandlerOutcomes ==
    HandlerOutcomes \cup {Rejects(NewError(<<"boom">>, <<>>)), Rejects(Thrown("oops"))}

\* the handlers of the two frames of tab t2 under requests, direct and
\* relayed, ending in every way
HandlerNext ==
    \/ \E c \in {"csB", "csC"} : onMessageExclusive(c, "ping", "h1", None) /\ UNCHANGED <<streamVars, storageVars>>
    \/ \E c \in {"sp", "csA"} :
          sendMessage(c, "ping", 7, "t2", Undefined, Undefined) /\ UNCHANGED <<streamVars, storageVars>>
    \/ \E k \in 1..Len(hops) : \E r \in hops[k].pending :
          \E does \in (IF Get(listenersMap, r, hops[k].env.id) = None THEN {Returns(14)}
                       ELSE AllHandlerOutcomes) :
             webextHandleMessage(k, r, {}, does) /\ UNCHANGED <<streamVars, storageVars>>
    \/ \E k \in 1..2, r \in Ctx : handlerSettles(k, r) /\ UNCHANGED <<streamVars, storageVars>>
    \/ relaySettles /\ UNCHANGED <<streamVars, storageVars>>
    \/ \E k \in 1..2 : noListenerAnswers(k) /\ UNCHANGED <<streamVars, storageVars>>
    \/ sendMessageSettle /\ UNCHANGED <<streamVars, storageVars>>

SpecHandler == Init /\ [][HandlerNext]_vars

\* the steps of a call when the observers are manual listeners
CallStepsManual ==
    \/ \E k \in 1..Len(hops) : \E r \in hops[k].pending :
          \E throwers \in SUBSET ObserversAt(r, hops[k].env.id), does \in OutcomesAt(r, hops[k].env.id),
             answers \in BOOLEAN :
             webextHandleMessageManual(k, r, throwers, does, answers)
    \/ \E k \in 1..2, r \in Ctx : handlerSettles(k, r)
    \/ \E k \in 1..2 : noListenerAnswers(k)
    \/ sendMessageSettle

\* the same content script with manual listeners for observers
ManualNext ==
    \/ \E cb \in Observers : onMessagePassive("csB", "ping", cb, None) /\ UNCHANGED <<streamVars, storageVars>>
    \/ \E d \in disposers : Unregister(d) /\ UNCHANGED <<streamVars, storageVars>>
    \/ onMessageExclusive("csB", "ping", "h1", None) /\ UNCHANGED <<streamVars, storageVars>>
    \/ sendMessage("sp", "ping", 7, "t2", Undefined, Undefined) /\ UNCHANGED <<streamVars, storageVars>>
    \/ CallStepsManual /\ UNCHANGED <<streamVars, storageVars>>

SpecManual == Init /\ [][ManualNext]_vars

\* the callbacks and signals the registrations are made with
ExclusiveRegistrations == {<<"h1", "s1">>, <<"h2", None>>}
PassiveRegistrations == {<<"p1", "s1">>, <<"p1", None>>, <<"p2", None>>}

\* the registry alone: registrations and the unregister closures they returned
RegNext ==
    \/ \E r \in ExclusiveRegistrations :
          onMessageExclusive("bg", "ping", r[1], r[2]) /\ UNCHANGED <<streamVars, storageVars>>
    \/ \E r \in PassiveRegistrations :
          onMessagePassive("csB", "ping", r[1], r[2]) /\ UNCHANGED <<streamVars, storageVars>>
    \/ \E d \in disposers : Unregister(d) /\ UNCHANGED <<streamVars, storageVars>>
    \/ \E signal \in Signals : abortSignal(signal) /\ UNCHANGED <<streamVars, storageVars>>

SpecReg == Init /\ [][RegNext]_vars

SpecStream == Init /\ [][StreamNext]_vars

SpecStorage == Init /\ [][StorageNext]_vars

\* the stream operations, with a consumer that may abandon its sequence
StreamIterNext ==
    \/ StreamNext
    \/ iterReturn("opener") /\ UNCHANGED <<msgVars, streamRegVars, storageVars>>

SpecStreamIter == Init /\ [][StreamIterNext]_vars

Factories == {"factory", "factory2"}

\* the stream channel registry, with connections opened against it
StreamRegNext ==
    \/ \E callback \in Factories : onOpenStreamImpl("feed", callback) /\ UNCHANGED <<msgVars, storageVars>>
    \/ \E d \in streamDisposers : unregisterStream(d) /\ UNCHANGED <<msgVars, storageVars>>
    \/ openStreamImpl("feed") /\ UNCHANGED <<msgVars, streamRegVars, storageVars>>
    \/ \E e \in Ends : HostDelivers(e)
    \/ \E e \in Ends : close(e) /\ UNCHANGED <<msgVars, streamRegVars, storageVars>>

SpecStreamReg == Init /\ [][StreamRegNext]_vars

\* one session with observers of the three kinds coming and going while
\* the other end sends a frame, raises an error or closes
StreamObserversNext ==
    \/ /\ listeners["feed"] = None
       /\ onOpenStreamImpl("feed", "factory")
       /\ UNCHANGED <<msgVars, storageVars>>
    \/ openStreamImpl("feed") /\ UNCHANGED <<msgVars, streamRegVars, storageVars>>
    \/ \E e \in Ends : HostDelivers(e)
    \/ /\ streams["acceptor"].sent = <<>>
       /\ send("acceptor", 1)
       /\ UNCHANGED <<msgVars, streamRegVars, storageVars>>
    \/ streams["acceptor"].connected /\ close("acceptor") /\ UNCHANGED <<msgVars, streamRegVars, storageVars>>
    \/ error("acceptor", StreamError) /\ UNCHANGED <<msgVars, streamRegVars, storageVars>>
    \/ \E kind \in ObserverKinds, cb \in ObserverCallbacks :
          observeStream("opener", kind, cb) /\ UNCHANGED <<msgVars, streamRegVars, storageVars>>
    \/ \E i \in 1..MaxObservers : disposeObserver("opener", i) /\ UNCHANGED <<msgVars, streamRegVars, storageVars>>

SpecStreamObservers == Init /\ [][StreamObserversNext]_vars

\* the host delivers every queued port event, and a consumer inside for-await
\* asks for the next item once it has been given one
SpecStreamFair ==
    /\ Init
    /\ [][StreamNext]_vars
    /\ \A e \in Ends : WF_vars(HostDelivers(e))
    /\ WF_vars(ConsumerPulls)

(***************************************************************************)
(* Properties of the channel registry                                      *)
(***************************************************************************)
\* C1: duplicate exclusive handler rejected. Registering an exclusive handler
\* for a channel that has one in that context fails with DuplicateHandler
\* and leaves the existing handler in place; unregistering the handler
\* empties the slot, and registering on an empty slot succeeds and installs
\* the new handler.
C1_DuplicateHandler ==
    [][/\ \A c \in Ctx, id \in Channels, cb \in Handlers :
            onMessageExclusive(c, id, cb, None) =>
               IF listenersMap[c][id] # None
                 THEN /\ thrown' = "DuplicateHandler"
                      /\ listenersMap'[c][id] = listenersMap[c][id]
                      /\ disposers' = disposers
                 ELSE /\ thrown' = None
                      /\ listenersMap'[c][id] = cb
       /\ \A d \in disposers :
            (~d.passive /\ ~d.noop /\ Unregister(d)) => listenersMap'[d.ctx][d.id] = None
      ]_vars

\* h2 was registered and unregistered, h1 was registered in its place, and a
\* further registration has just been refused with h1 still there
C1_Witness ==
    /\ thrown = "DuplicateHandler"
    /\ listenersMap["bg"]["ping"] = "h1"
    /\ [Disposer("bg", "ping", "h2", FALSE, None) EXCEPT !.removed = TRUE] \in disposers

\* the registration behind a closure is in its registry
Subscribed(d, lm, pm) ==
    IF d.passive THEN InSeq(pm[d.ctx][d.id], d.cb) ELSE lm[d.ctx][d.id] = d.cb

\* C14: unregister is idempotent. Once an unregister function has been
\* called, or its registration has been removed by its abort signal, calling
\* it again leaves the exclusive-handler map and the passive-observer sets
\* unchanged, whatever was registered on the channel in between.
C14_UnregisterIdempotent ==
    [][\A d \in disposers :
          (d.removed /\ Unregister(d)) => UNCHANGED <<listenersMap, pasiveListenersMap>>
      ]_vars

\* C15: an abort removes exactly its own subscription. When a signal fires,
\* the exclusive registrations made with it leave their slot free, the passive
\* registrations made with it are no longer in the observer set unless another
\* live subscription uses the same callback, and every other subscription of
\* the channel that was registered stays registered.
C15_AbortRemovesOnlyThat ==
    [][\A s \in Signals :
          abortSignal(s) =>
             /\ \A d \in Attached(s) :
                   /\ ~d.passive => listenersMap'[d.ctx][d.id] = None
                   /\ (d.passive /\ ~\E o \in disposers :
                                       /\ o.passive /\ ~o.noop /\ ~o.removed /\ o.signal # s
                                       /\ o.ctx = d.ctx /\ o.id = d.id /\ o.cb = d.cb)
                         => ~InSeq(pasiveListenersMap'[d.ctx][d.id], d.cb)
             /\ \A o \in disposers :
                   (~o.noop /\ ~o.removed /\ o.signal # s
                       /\ Subscribed(o, listenersMap, pasiveListenersMap))
                     => Subscribed(o, listenersMap', pasiveListenersMap')
      ]_vars

\* C16: registering with a signal that is already aborted is void. Neither
\* registry changes, no error is raised even when the channel has an
\* exclusive handler, and calling the returned unregister function changes
\* neither registry.
C16_AbortedSignalIsVoid ==
    [][/\ \A c \in Ctx, id \in Channels, s \in aborted :
            /\ \A cb \in Handlers :
                  onMessageExclusive(c, id, cb, s) =>
                     /\ UNCHANGED <<listenersMap, pasiveListenersMap>>
                     /\ thrown' = None
            /\ \A cb \in Observers :
                  onMessagePassive(c, id, cb, s) =>
                     /\ UNCHANGED <<listenersMap, pasiveListenersMap>>
                     /\ thrown' = None
       /\ \A d \in disposers :
            (d.signal \in aborted /\ d.noop /\ Unregister(d)) =>
               UNCHANGED <<listenersMap, pasiveListenersMap>>
      ]_vars

\* s1 has fired; h1 and p1 were then registered with it: h2 still holds the
\* channel, no error was raised, and p1 is not an observer
C16_Witness ==
    /\ "s1" \in aborted
    /\ NoopDisposer("bg", "ping", "h1", FALSE, "s1") \in disposers
    /\ NoopDisposer("csB", "ping", "p1", TRUE, "s1") \in disposers
    /\ listenersMap["bg"]["ping"] = "h2"
    /\ ~InSeq(pasiveListenersMap["csB"]["ping"], "p1")
    /\ thrown = None

(***************************************************************************)
(* Properties of sendMessage and the dispatch routine                      *)
(***************************************************************************)
LogEntries == {log[i] : i \in 1..Len(log)}
ExclusiveEntries == {e \in LogEntries : e.kind = "exclusive"}

\* C2: send round trip. Every exclusive handler is invoked with the channel
\* and exactly the data that were sent, and when the call has settled and one
\* handler answered it by returning V, the caller's send resolved to V (the
\* {data: V} response unwrapped).
C2_SendRoundTrip ==
    /\ \A e \in ExclusiveEntries : e.id = call.id /\ e.data = call.data
    /\ call.st = "done" =>
         \A e \in ExclusiveEntries :
            (ExclusiveEntries = {e} /\ e.does.kind = "return") =>
               /\ hops[1].resp = RespData(e.does.value)
               /\ call.outcome = Resolved(e.does.value)

C2_Witness ==
    /\ call.st = "done"
    /\ Len(hops) = 1
    /\ \E e \in ExclusiveEntries : ExclusiveEntries = {e} /\ e.does = Returns(14) /\ e.data = 7
    /\ call.outcome = Resolved(14)

\* C3: send error round trip. When the call has settled and the one handler
\* that answered it failed with an Error E, the failure crossed as an {error}
\* response holding E serialized, and the caller's send rejected with the
\* deserialized error, whose message is E's message; it did not resolve.
C3_SendErrorRoundTrip ==
    call.st = "done" =>
      \A e \in ExclusiveEntries :
         (ExclusiveEntries = {e} /\ e.does.kind = "throw" /\ e.does.error.isError) =>
            /\ hops[1].resp = RespError(serializeError(e.does.error))
            /\ call.outcome.kind = "rejected"
            /\ call.outcome.error.isError
            /\ call.outcome.error.message = e.does.error.message

C3_Witness ==
    /\ call.st = "done"
    /\ \E e \in ExclusiveEntries :
          /\ ExclusiveEntries = {e}
          /\ e.does = Throws(NewError(<<"boom">>, <<>>))
    /\ call.outcome = Rejected(NewError(<<"boom">>, <<>>))

NoHandlerAnywhere(id) == \A c \in Ctx : listenersMap[c][id] = None

\* C4 as claimed: with no exclusive handler for the channel in any context,
\* the settled send rejected with NoListener naming the channel, whatever
\* the options.
C4_NoListenerAnyOptions ==
    (call.st = "done" /\ NoHandlerAnywhere(call.id)) =>
        call.outcome = Rejected(NoListenerError(call.id))

\* C4 amended: with no exclusive handler for the channel in any context, the
\* settled send never resolved; it rejected with NoListener naming the
\* channel, except that with tabId 'active' it may have rejected with the
\* no-active-tab failure, and with tabId 'sender' from a sender that has no
\* tab with the failure of reading the sender's tab.
C4_NoListener ==
    (call.st = "done" /\ NoHandlerAnywhere(call.id)) =>
        /\ call.outcome.kind = "rejected"
        /\ \/ call.outcome.error = NoListenerError(call.id)
           \/ call.tabId = "active" /\ call.outcome.error = NoActiveTabError
           \/ /\ call.tabId = "sender"
              /\ TabOf(call.from) = NoTab
              /\ call.outcome.error = SenderTabTypeError

C4_Witness ==
    /\ call.st = "done"
    /\ NoHandlerAnywhere(call.id)
    /\ call.tabId = "t2"
    /\ call.destination = "content-script"
    /\ pasiveListenersMap["csB"]["ping"] # <<>>
    /\ \E e \in LogEntries : e.kind = "passive" /\ e.ctx = "csB"
    /\ call.outcome = Rejected(NoListenerError("ping"))

\* C5: a passive observer that throws stops nothing. The observer registered
\* after it ran next in the same dispatch, the exclusive handler found for
\* the channel ran after the observers and its context answered, and when
\* that handler alone answered the call by returning V the caller's send
\* resolved to V.
C5_PassiveThrowIsolated ==
    \A i \in 1..Len(log) :
       (log[i].kind = "passive" /\ log[i].does.kind = "throw") =>
          /\ log[i].idx < log[i].total =>
                /\ i < Len(log)
                /\ log[i+1].kind = "passive"
                /\ log[i+1].ctx = log[i].ctx
                /\ log[i+1].hop = log[i].hop
                /\ log[i+1].idx = log[i].idx + 1
          /\ log[i].listener # None =>
                /\ log[i].ctx \in hops[log[i].hop].claimed
                /\ \E j \in (i+1)..Len(log) :
                      /\ log[j].kind = "exclusive"
                      /\ log[j].ctx = log[i].ctx
                      /\ log[j].hop = log[i].hop
                      /\ log[j].cb = log[i].listener
                      /\ (call.st = "done" /\ ExclusiveEntries = {log[j]} /\ log[j].does.kind = "return")
                            => call.outcome = Resolved(log[j].does.value)

C5_Witness ==
    /\ call.st = "done"
    /\ Len(log) = 3
    /\ log[1].kind = "passive" /\ log[1].does.kind = "throw"
    /\ log[2].kind = "passive" /\ log[2].does.kind = "return"
    /\ log[3].kind = "exclusive" /\ log[3].does = Returns(14)
    /\ call.outcome = Resolved(14)

\* the calls of C6: a context without the tabs API addressing a concrete tab
RelayedToTab == call.st # "idle" /\ ~isTabsApiAvailable(call.from) /\ call.tabId \in Tabs

\* C6: relay round trip. Such a call goes out as a relay envelope holding the
\* channel and data; the background forwards it to that tab only; every
\* handler it reaches is in that tab and is given the data sent, the
\* background as sender and the calling context as originalSender; and when
\* the call has settled and that handler returned V, the send resolved to V.
C6_RelayRoundTrip ==
    RelayedToTab =>
       /\ Len(hops) >= 1
       /\ hops[1].env.id = BackgroundForwardMessageId
       /\ hops[1].env.data.id = call.id
       /\ hops[1].env.data.data = call.data
       /\ hops[1].env.data.tabId = call.tabId
       /\ Len(hops) = 2 =>
             /\ hops[2].sender = MessageSender("bg")
             /\ hops[2].pending \subseteq TabRecipients(call.tabId, Undefined)
       /\ \A e \in LogEntries :
             /\ TabOf(e.ctx) = call.tabId
             /\ e.id = call.id
             /\ e.data = call.data
             /\ e.sender = MessageSender("bg")
             /\ e.originalSender = MessageSender(call.from)
       /\ call.st = "done" =>
             \A e \in ExclusiveEntries :
                e.does.kind = "return" => call.outcome = Resolved(e.does.value)

C6_Witness ==
    /\ call.st = "done"
    /\ call.from = "csA" /\ call.tabId = "t2" /\ call.destination = Undefined /\ call.data = 7
    /\ \E e \in ExclusiveEntries :
          /\ e.ctx = "csB"
          /\ e.data = 7
          /\ e.originalSender = MessageSender("csA")
          /\ e.does = Returns(14)
    /\ call.outcome = Resolved(14)

\* an envelope tagged for a destination that context r is not
NotFor(r, destination) ==
    \/ destination = "sidebar" /\ ~isSidepanelPageSync(r)
    \/ destination = "content-script" /\ isTabsApiAvailable(r)

C7_WitnessContent ==
    /\ Len(hops) = 1
    /\ hops[1].env.destination = "content-script"
    /\ hops[1].env.id = "ping"
    /\ hops[1].pending = {}
    /\ hops[1].sender.ctx = "sp"
    /\ listenersMap["bg"]["ping"] # None
    /\ hops[1].claimed = {}

\* a message the protocol did not build
Unmarked(message) == message.type # "object" \/ message.marker # MessageIdentifier

\* C24: messages without the protocol marker are discarded. For a message
\* that is not an object or whose marker is not 1, no context claims it, no
\* handler runs, no observer or handler invocation is logged, no relay is
\* attempted, and the only answer its sender can get is the host's undefined.
C24_UnmarkedDiscarded ==
    \A k \in 1..Len(hops) :
       Unmarked(hops[k].env) =>
          /\ Len(hops) = 1
          /\ hops[k].relay = "none"
          /\ hops[k].claimed = {}
          /\ hops[k].running = {}
          /\ log = <<>>
          /\ hops[k].resp \in {NoResp, RespUndefined}

\* an object without the marker, carrying the channel 'ping', was handed to
\* the background, where h1 is registered for 'ping', and to no effect
C24_Witness ==
    /\ Len(hops) = 1
    /\ hops[1].env = ForeignMessage("object", 0, "ping", 7)
    /\ listenersMap["bg"]["ping"] = "h1"
    /\ hops[1].pending = {}
    /\ hops[1].resp = RespUndefined

\* the envelope sendMessage wraps a request in for the background to forward
IsForward(message) == ~Unmarked(message) /\ message.id = BackgroundForwardMessageId

DataOf(frames) == SelectSeq(frames, LAMBDA f : f.ev = "message" /\ f.key = "data")

Values(frames) == [i \in 1..Len(frames) |-> frames[i].val[1]]

QueuedData(queue) == SelectSeq(queue, LAMBDA item : item.type = "DATA")

QueuedValues(queue) == [i \in 1..Len(QueuedData(queue)) |-> QueuedData(queue)[i].value[1]]

From(s, n) == SubSeq(s, n + 1, Len(s))

\* C8: stream framing without loss. Once both sessions exist, the frames the
\* accepting side sent are, in order and with their payloads, the ones the
\* opening side's port has dispatched followed by the ones in flight to it; an
\* onMessage observer has seen every frame dispatched since it was added; and
\* the frames dispatched since iter() returned its sequence are the ones the
\* sequence has yielded followed by the ones it holds queued, also before
\* the consumer's first pull.
C8_StreamFraming ==
    LET o == streams["opener"]
        a == streams["acceptor"]
    IN  (o.exists /\ a.exists) =>
           /\ ports["opener"].state = "open" =>
                 a.sent = o.dispatched \o Values(DataOf(ports["opener"].inbox))
           /\ o.observing => o.observed = From(o.dispatched, o.obsFrom)
           /\ o.iterSt \in {"created", "waiting", "suspended"} =>
                 From(o.dispatched, o.iterFrom) = o.yielded \o QueuedValues(o.queue)

\* C9: stream termination. Once close() has been called on an end whose peer
\* session exists, the peer session becomes and stays Closed with its signal
\* fired once; no session's signal ever fires twice, also when both ends close.
C9_StreamTermination ==
    /\ [](\A e \in Ends : streams[e].abortEvents <= 1)
    /\ \A e \in Ends :
          (streams[e].closeCalled /\ streams[Other(e)].exists)
             ~> [](~streams[Other(e)].connected /\ streams[Other(e)].abortEvents = 1)

\* both ends called close() while live, and each one's signal fired once
C9_Witness ==
    /\ \A e \in Ends :
          /\ streams[e].closeCalled
          /\ ~streams[e].connected
          /\ streams[e].abortEvents = 1
          /\ ports[e].inbox = <<>>

Raised(s, errs) ==
    /\ s.iterSt = "threw"
    /\ errs # <<>>
    /\ s.raised = <<deserializeError(serializeError(errs[1]))>>

HandlerErrors ==
    {deserializeError(HandlerResponse(e.does).error) :
        e \in {x \in ExclusiveEntries : x.does.kind = "throw"}}

TakenRoute ==
    IF hops = <<>> THEN "tabs"
    ELSE IF hops[1].env.id = BackgroundForwardMessageId THEN "relay"
    ELSE hops[1].api

\* C12 as claimed: for every combination of the options and the sender, the
\* route is the first of: (1) relay when the destination is content-script and
\* the sender has no tabs API; (2) direct to the background without a tab
\* target; (3) direct to the tab whenever the tab target is concrete or
\* 'active' and the sender has the tabs API; (4) relay otherwise.
C12_RouteByTabTargetOnly ==
    call.st # "idle" =>
       TakenRoute =
          IF call.destination = "content-script" /\ ~isTabsApiAvailable(call.from) THEN "relay"
          ELSE IF call.tabId = Undefined THEN "runtime"
          ELSE IF call.tabId \in Tabs \cup {"active"} /\ isTabsApiAvailable(call.from) THEN "tabs"
          ELSE "relay"

\* C12 amended: as claimed, except that rule (3) applies only when, besides
\* the tab target being concrete or 'active' and the sender having the tabs
\* API, the frame target is not 'sender'; a request with frameId 'sender' and
\* a tab target is relayed under rule (4) also from a sender with the tabs API.
\* A relayed request goes to the background over runtime.sendMessage.
C12_Routing ==
    call.st # "idle" =>
       /\ TakenRoute =
             IF call.destination = "content-script" /\ ~isTabsApiAvailable(call.from) THEN "relay"
             ELSE IF call.tabId = Undefined THEN "runtime"
             ELSE IF /\ call.tabId \in Tabs \cup {"active"}
                     /\ call.frameId # "sender"
                     /\ isTabsApiAvailable(call.from)
               THEN "tabs"
             ELSE "relay"
       /\ TakenRoute = "relay" => hops[1].api = "runtime"

\* the side panel, which has the tabs API, addressed tab t2 with frameId
\* 'sender', and the request went out as a relay envelope
C12_Witness ==
    /\ call.st # "idle"
    /\ call.from = "sp"
    /\ call.tabId = "t2"
    /\ call.frameId = "sender"
    /\ TakenRoute = "relay"
    /\ Len(hops) = 2

\* C13 as claimed: a send with tabId 'active' addresses the tab that was
\* active when send was called, and when no tab was active then, it fails
\* with NoActiveTab and no observer or handler is given the envelope.
C13_ActiveAtSendCall ==
    (call.st # "idle" /\ call.tabId = "active") =>
       /\ call.activeAtCall = NoTab =>
             /\ LogEntries = {}
             /\ call.st = "done" => call.outcome = Rejected(NoActiveTabError)
       /\ call.activeAtCall # NoTab =>
             /\ \A e \in LogEntries : TabOf(e.ctx) = call.activeAtCall
             /\ call.st = "done" => call.outcome # Rejected(NoActiveTabError)

\* the relay resolves the target of the envelope it has claimed
RelayResolves ==
    /\ call' = call
    /\ Len(hops) = 1
    /\ Len(hops') >= 1
    /\ hops[1].relay = "none"
    /\ hops'[1].relay # "none"

\* C13 amended: a send with tabId 'active' addresses the tab that is active
\* when 'active' is resolved: at the send call on the direct route, and when
\* the background forwards the envelope on the relayed route. When no tab is
\* active at that moment the send fails with NoActiveTab and no observer or
\* handler is given the envelope; otherwise only contexts of the resolved
\* tab are given it.
C13_ActiveTab ==
    /\ []((call.st # "idle" /\ call.tabId = "active") =>
            /\ TakenRoute = "tabs" =>
                  /\ hops = <<>> <=> call.activeAtCall = NoTab
                  /\ hops # <<>> => hops[1].tab = call.activeAtCall
            /\ (hops = <<>> \/ hops[1].resp = RespReject(NoActiveTabError)) =>
                  /\ LogEntries = {}
                  /\ Len(hops) <= 1
                  /\ call.st = "done" => call.outcome = Rejected(NoActiveTabError)
            /\ \A e \in LogEntries :
                  /\ hops[e.hop].api = "tabs"
                  /\ TabOf(e.ctx) = hops[e.hop].tab)
    /\ [][(call.tabId = "active" /\ RelayResolves) =>
             IF activeTab = NoTab
               THEN hops' = <<[hops'[1] EXCEPT !.resp = RespReject(NoActiveTabError)]>>
               ELSE Len(hops') = 2 /\ hops'[2].api = "tabs" /\ hops'[2].tab = activeTab]_vars

\* a content script sent to the active tab while t2 was active; the tab was
\* gone when the background resolved the target, and the send failed
C13_Witness ==
    /\ call.st = "done"
    /\ call.tabId = "active"
    /\ call.activeAtCall = "t2"
    /\ TakenRoute = "relay"
    /\ hops[1].resp = RespReject(NoActiveTabError)
    /\ call.outcome = Rejected(NoActiveTabError)

(***************************************************************************)
(* Properties of the stream registry and of a session's liveness           *)
(***************************************************************************)
\* C17: one factory per stream channel. Registering a factory for a channel
\* that has one fails with the duplicate-handler error and keeps the first
\* factory; unregistering the factory empties the channel, and registering on
\* an empty channel succeeds and installs the new factory.
C17_OneFactoryPerChannel ==
    [][/\ \A channel \in StreamChannels, callback \in Factories :
            onOpenStreamImpl(channel, callback) =>
               IF listeners[channel] # None
                 THEN /\ streamThrown' = "DuplicateHandler"
                      /\ listeners'[channel] = listeners[channel]
                      /\ streamDisposers' = streamDisposers
                 ELSE /\ streamThrown' = None
                      /\ listeners'[channel] = callback
       /\ \A d \in streamDisposers :
            (listeners[d.channel] = d.callback /\ unregisterStream(d)) =>
               listeners'[d.channel] = None
      ]_vars

\* factory was registered and unregistered, factory2 was registered in its
\* place, and a further registration has just been refused with factory2 kept
C17_Witness ==
    /\ streamThrown = "DuplicateHandler"
    /\ listeners["feed"] = "factory2"
    /\ StreamDisposer("feed", "factory") \in streamDisposers

C19_NoFrameWhenNotLive ==
    \A e \in Ends : ~streams[e].postedNotLive

\* C20: close() is idempotent. A close() on a live session clears the
\* liveness flag, fires the signal and disconnects the port; a close() on a
\* session that is no longer live, by an earlier close() or by a dropped
\* connection, changes neither the session nor the connection. No session
\* disconnects its port twice, and no signal fires twice.
C20_CloseIdempotent ==
    /\ [](\A e \in Ends : streams[e].disconnects <= 1 /\ streams[e].abortEvents <= 1)
    /\ [][\A e \in Ends :
             close(e) =>
                IF streams[e].connected
                  THEN /\ ~streams'[e].connected
                       /\ streams'[e].aborted
                       /\ streams'[e].abortEvents = streams[e].abortEvents + 1
                       /\ streams'[e].disconnects = 1
                       /\ ports'[e].state = "disconnected"
                       /\ Len(ports'[Other(e)].inbox) > Len(ports[Other(e)].inbox)
                       /\ ports'[Other(e)].inbox[Len(ports'[Other(e)].inbox)] = DisconnectEvent
                  ELSE /\ ports' = ports
                       /\ streams' = [streams EXCEPT ![e].closedAgain = streams'[e].closedAgain]
         ]_vars

\* the opener closed and then called close() again; the acceptor's session
\* ended by the disconnect and close() was then called on it
C20_Witness ==
    /\ streams["opener"].closeCalled /\ streams["opener"].closedAgain
    /\ streams["opener"].disconnects = 1 /\ streams["opener"].abortEvents = 1
    /\ streams["acceptor"].exists /\ ~streams["acceptor"].closeCalled
    /\ streams["acceptor"].closedAgain
    /\ streams["acceptor"].disconnects = 0 /\ streams["acceptor"].abortEvents = 1

(***************************************************************************)
(* Properties of iter()                                                    *)
(***************************************************************************)
\* close() was called on end e, not through error(), while the consumer of
\* the other end was awaiting its next element
ClosedOnWaiting(e) ==
    /\ streams[e].closeCalled
    /\ streams[e].errorCalled = <<>>
    /\ streams[e].consumerAtClose = "waiting"

C22_AbandonCloses ==
    /\ [](\A e \in Ends :
             streams[e].iterSt = "returned" => (~streams[e].connected /\ streams[e].aborted))
    /\ [][\A e \in Ends :
             streams[e].iterSt = "returned" => streams'[e].queue = streams[e].queue]_vars

C26_RelayTarget ==
    [][(RelayResolves /\ Len(hops') = 2) =>
          LET f == hops[1].env.data
              from == hops[1].sender
              out == hops'[2]
          IN  /\ out.env.id = f.id /\ f.id = call.id
              /\ out.env.data = f.data /\ f.data = call.data
              /\ f.tabId = call.tabId /\ f.frameId = call.frameId
              /\ out.api = "tabs" =>
                    /\ out.tab = (IF f.tabId = "sender" THEN from.tab
                                  ELSE IF f.tabId = "active" THEN activeTab
                                  ELSE f.tabId)
                    /\ out.frame = (IF f.frameId = "sender" THEN from.frameId ELSE f.frameId)
              /\ out.api = "runtime" => f.tabId = Undefined
      ]_vars

\* csA asked for its own tab and frame: the forward went to tab t1, frame f0
C26_Witness ==
    /\ Len(hops) = 2
    /\ call.from = "csA" /\ call.tabId = "sender" /\ call.frameId = "sender"
    /\ hops[2].api = "tabs" /\ hops[2].tab = "t1" /\ hops[2].frame = "f0"
    /\ hops[2].env.id = "ping" /\ hops[2].env.data = 7

\* a concrete frame given with a concrete tab reached the forward as it was
C26_WitnessConcrete ==
    /\ Len(hops) = 2
    /\ call.from = "csA" /\ call.tabId = "t2" /\ call.frameId = "f0"
    /\ hops[2].api = "tabs" /\ hops[2].tab = "t2" /\ hops[2].frame = "f0"

\* the relay is about to resolve a target that does not exist
RelayCannotResolve ==
    LET f == hops[1].env.data
    IN  \/ f.tabId = "active" /\ activeTab = NoTab
        \/ f.tabId = "sender" /\ hops[1].sender.tab = NoTab

\* what resolving that target fails with
ResolutionFailure == IF hops[1].env.data.tabId = "active" THEN NoActiveTabError ELSE SenderTabTypeError

\* C27: when the relay cannot resolve its target (tab 'active' with no active
\* tab, tab 'sender' for a sender without a tab) it forwards nothing, then or
\* later, and no observer or handler is given the request; the caller's send
\* is rejected with the failure of the resolution, which is not the
\* no-listener failure, and it does not resolve.
C27_RelayUnresolved ==
    /\ [][(RelayResolves /\ RelayCannotResolve) =>
             /\ hops' = <<[hops'[1] EXCEPT !.relay = "done", !.resp = RespReject(ResolutionFailure)]>>
             /\ log' = log]_vars
    /\ []((Len(hops) = 1 /\ hops[1].relay = "done") =>
             /\ hops[1].resp \in {RespReject(NoActiveTabError), RespReject(SenderTabTypeError)}
             /\ LogEntries = {}
             /\ call.st = "done" =>
                   /\ call.outcome = Rejected(hops[1].resp.error)
                   /\ call.outcome # Rejected(NoListenerError(call.id))
                   /\ call.outcome.kind # "resolved")
    /\ [][(Len(hops) = 1 /\ hops[1].relay = "done") => Len(hops') <= 1]_vars

\* the sidepanel asked for 'sender': it has no tab, and its send was rejected
\* with the TypeError of reading the tab's id
C27_Witness ==
    /\ call.st = "done"
    /\ call.from = "sp" /\ call.tabId = "sender"
    /\ Len(hops) = 1 /\ hops[1].relay = "done"
    /\ call.outcome = Rejected(SenderTabTypeError)

\* C28: what the relay forwards, and to whom. A request for the content
\* context for which no tab was resolved is sent again with
\* runtime.sendMessage, as the envelope of the request's channel, data and
\* destination with the original sender embedded; every other forward is a
\* tabs.sendMessage of that envelope to the resolved tab and frame, delivered
\* to the contexts of that tab (and frame) only, and only they are given it.
C28_RelayForward ==
    /\ [][(RelayResolves /\ Len(hops') = 2) =>
             LET f == hops[1].env.data
                 out == hops'[2]
             IN  /\ out.sender = MessageSender("bg")
                 /\ out.env = Envelope(call.id, call.data, call.destination, hops[1].sender)
                 /\ IF call.destination = "content-script" /\ call.tabId = Undefined
                      THEN out.api = "runtime" /\ out.pending = ExtensionPages \ {"bg"}
                      ELSE /\ out.api = "tabs"
                           /\ out.tab \notin {Undefined, NoTab, "sender", "active"}
                           /\ out.pending = {c \in Ctx : /\ TabOf(c) = out.tab
                                                         /\ out.frame # Undefined => FrameOf(c) = out.frame}]_vars
    /\ [](\A e \in LogEntries :
             (e.hop = 2 /\ hops[2].api = "tabs") =>
                 /\ TabOf(e.ctx) = hops[2].tab
                 /\ hops[2].frame # Undefined => FrameOf(e.ctx) = hops[2].frame)

\* a content script asked for the content context without a tab: the
\* background sent the unwrapped envelope again with runtime.sendMessage
C28_Witness ==
    /\ Len(hops) = 2
    /\ call.from = "csA" /\ call.destination = "content-script" /\ call.tabId = Undefined
    /\ hops[2].api = "runtime"
    /\ hops[2].env = Envelope("ping", 7, "content-script", MessageSender("csA"))

\* a request forwarded to a tab was handled there, in that tab
C28_WitnessTab ==
    /\ Len(hops) = 2 /\ hops[2].api = "tabs" /\ hops[2].tab = "t2"
    /\ \E e \in LogEntries : e.hop = 2 /\ e.ctx = "csB"

\* the outcome of a send whose target answered with resp
OutcomeOf(id, resp) ==
    CASE resp.kind = "data" -> Resolved(resp.data)
      [] resp.kind = "error" -> Rejected(deserializeError(resp.error))
      [] resp.kind = "undefined" -> Rejected(NoListenerError(id))
      [] resp.kind = "null" -> Rejected(AmbiguousListenerError(id))
      [] OTHER -> NoOutcome

\* C29: the relay hands the inner answer back unchanged. Once the relay of a
\* forwarded request has settled, its answer is the answer of the forwarded
\* call; and a settled send, relayed or direct, has the outcome of the answer
\* of the call that reached the target: the handler's data, the handler's
\* error, NoListener when nobody there claimed it, AmbiguousListener when
\* several did and the host answered null.
C29_RelayPropagates ==
    /\ (Len(hops) = 2 /\ hops[1].relay = "done") => hops[1].resp = hops[2].resp
    /\ (call.st = "done" /\ hops # <<>> /\ (IsForward(hops[1].env) => Len(hops) = 2)) =>
          LET target == hops[Len(hops)]
          IN  /\ call.outcome = OutcomeOf(call.id, target.resp)
              /\ target.resp.kind \in {"data", "error", "undefined", "null"}
              /\ target.resp.kind = "undefined" => target.claimed = {}
              /\ target.resp.kind = "null" => Cardinality(target.claimed) > 1
              /\ target.resp.kind \in {"data", "error"} =>
                    \E e \in ExclusiveEntries : e.hop = Len(hops) /\ HandlerResponse(e.does) = target.resp

\* a relayed request was claimed in both frames of the tab, the host answered
\* null, and the content script's send failed with AmbiguousListener
C29_Witness ==
    /\ call.st = "done" /\ call.from = "csA"
    /\ Len(hops) = 2 /\ hops[2].resp = RespNull
    /\ call.outcome = Rejected(AmbiguousListenerError("ping"))

\* the same for the handler's data, its error and the missing listener
C29_WitnessData ==
    /\ call.st = "done" /\ call.from = "csA" /\ Len(hops) = 2
    /\ call.outcome = Resolved(14)

C29_WitnessError ==
    /\ call.st = "done" /\ call.from = "csA" /\ Len(hops) = 2
    /\ hops[2].resp.kind = "error" /\ call.outcome.kind = "rejected"

C29_WitnessNoListener ==
    /\ call.st = "done" /\ call.from = "csA" /\ Len(hops) = 2
    /\ call.outcome = Rejected(NoListenerError("ping"))

\* the side panel's direct send to the tab met the same ambiguity
C29_WitnessDirect ==
    /\ call.st = "done" /\ call.from = "sp" /\ Len(hops) = 1
    /\ call.outcome = Rejected(AmbiguousListenerError("ping"))

\* C30: the original sender is embedded by the relay alone. The envelope of
\* a send's own transport call carries no sender and the envelope the
\* background forwards carries the sender of the request; so an observer or
\* handler is given an originalSender exactly when it was reached by the
\* background's forwarding, and then originalSender is the context that called
\* send and sender is the background, while on a direct call sender is the
\* context that called send.
C30_OriginalSenderByRelayOnly ==
    /\ Len(hops) >= 1 => hops[1].env.sender = NoSender
    /\ Len(hops) = 2 =>
          /\ IsForward(hops[1].env)
          /\ hops[2].env.sender = MessageSender(call.from)
          /\ hops[2].sender = MessageSender("bg")
    /\ \A e \in LogEntries :
          /\ e.originalSender # NoSender <=> e.hop = 2
          /\ e.hop = 2 =>
                /\ e.originalSender = MessageSender(call.from)
                /\ e.sender = MessageSender("bg")
                /\ call.from # "bg"
          /\ e.hop = 1 =>
                /\ ~IsForward(hops[1].env)
                /\ e.sender = MessageSender(call.from)

\* an observer and the handler of tab t2 were reached through the relay
C30_Witness ==
    /\ \E e \in LogEntries :
          e.kind = "passive" /\ e.hop = 2 /\ e.originalSender = MessageSender("csA")
    /\ \E e \in LogEntries :
          e.kind = "exclusive" /\ e.hop = 2 /\ e.originalSender = MessageSender("csA")

\* the handler of tab t2 was reached directly by the side panel
C30_WitnessDirect ==
    \E e \in LogEntries :
       e.kind = "exclusive" /\ e.hop = 1 /\ e.ctx = "csB" /\ e.originalSender = NoSender
          /\ e.sender = MessageSender("sp")

(***************************************************************************)
(* Properties of observers and handlers in the dispatch routine            *)
(***************************************************************************)
\* the invocations a dispatch step has just added to the log
Invoked == SubSeq(log', Len(log) + 1, Len(log'))

\* C31: observers run in registration order, once each, before the handler.
\* A new observer takes the last place among the observers of its channel;
\* and the invocations one dispatch makes are, in this order, one for each
\* observer of the channel in the order they hold, then the one of the
\* exclusive handler if there is one.
C31_ObserversInOrder ==
    /\ [][\A c \in Ctx, id \in Channels :
             Len(pasiveListenersMap'[c][id]) > Len(pasiveListenersMap[c][id]) =>
                 /\ Len(pasiveListenersMap'[c][id]) = Len(pasiveListenersMap[c][id]) + 1
                 /\ SubSeq(pasiveListenersMap'[c][id], 1, Len(pasiveListenersMap[c][id]))
                       = pasiveListenersMap[c][id]]_vars
    /\ [][Len(log') > Len(log) =>
             LET r == Invoked[1].ctx
                 id == Invoked[1].id
                 cbs == pasiveListenersMap[r][id]
                 listener == listenersMap[r][id]
             IN  /\ Len(Invoked) = Len(cbs) + (IF listener = None THEN 0 ELSE 1)
                 /\ \A i \in 1..Len(cbs) :
                       /\ Invoked[i].kind = "passive"
                       /\ Invoked[i].cb = cbs[i]
                       /\ Invoked[i].ctx = r
                 /\ \A i, j \in 1..Len(cbs) : i # j => cbs[i] # cbs[j]
                 /\ listener # None =>
                       /\ Invoked[Len(Invoked)].kind = "exclusive"
                       /\ Invoked[Len(Invoked)].cb = listener]_vars

\* p2 was registered before p1, and one request reached p2, p1 and the
\* handler, in that order
C31_Witness ==
    /\ Len(log) = 3
    /\ log[1].kind = "passive" /\ log[1].cb = "p2"
    /\ log[2].kind = "passive" /\ log[2].cb = "p1"
    /\ log[3].kind = "exclusive" /\ log[3].cb = "h1"
    /\ pasiveListenersMap["csB"]["ping"] = <<"p2", "p1">>

\* C32: observers never answer. A context that ran its observers for a
\* request and had no exclusive handler has not claimed the request; and when
\* a settled direct request ran observers only, nobody answered it and the
\* send failed with NoListener.
C32_ObserversNeverAnswer ==
    /\ \A e \in LogEntries :
          (e.kind = "passive" /\ e.listener = None) => e.ctx \notin hops[e.hop].claimed
    /\ (/\ call.st = "done"
        /\ Len(hops) = 1
        /\ LogEntries # {}
        /\ \A e \in LogEntries : e.kind = "passive" /\ e.listener = None) =>
          /\ hops[1].resp = RespUndefined
          /\ call.outcome = Rejected(NoListenerError(call.id))

\* a request that only observers saw has settled
C32_Witness ==
    /\ call.st = "done"
    /\ Len(log) = 2
    /\ \A i \in 1..2 : log[i].kind = "passive" /\ log[i].listener = None

\* the reply owed for a handler that ended as does
ReplyFor(does) ==
    IF does.kind = "return" THEN [kind |-> "data", data |-> does.value]
    ELSE IF does.error.isError
      THEN [kind |-> "error",
            error |-> [plain |-> TRUE, name |-> does.error.name, message |-> does.error.message,
                       cause |-> does.error.cause]]
      ELSE [kind |-> "error",
            error |-> [plain |-> TRUE, name |-> "Error", message |-> <<"Unknown error">>,
                       cause |-> does.error.cause]]

RunOf(e) == [ctx |-> e.ctx, does |-> e.does]

\* C33: the handler's reply. The dispatch that invokes an exclusive handler
\* claims the request for a later reply and replies nothing yet; the handler's
\* reply is one step that ends that wait, and the first reply of a request is
\* {data: result} or {error: serialized error} by how the handler ended,
\* thrown at once or rejected later, an Error or any other value; the call is
\* never answered by a rejection.
C33_HandlerReply ==
    /\ [](\A e \in ExclusiveEntries :
            LET h == hops[e.hop]
            IN  /\ e.ctx \in h.claimed
                /\ h.resp.kind \in {"pending", "data", "error", "null"}
                /\ h.resp.kind = "pending" => RunOf(e) \in h.running
                /\ (h.claimed = {e.ctx} /\ RunOf(e) \notin h.running) => h.resp = ReplyFor(e.does)
                /\ h.resp.kind \in {"data", "error"} =>
                      \E x \in ExclusiveEntries : x.hop = e.hop /\ h.resp = ReplyFor(x.does))
    /\ [][Len(log') > Len(log) =>
             \A i \in (Len(log) + 1)..Len(log') :
                log'[i].kind = "exclusive" =>
                   /\ RunOf(log'[i]) \in hops'[log'[i].hop].running
                   /\ RunOf(log'[i]) \notin hops[log'[i].hop].running
                   /\ hops'[log'[i].hop].resp = hops[log'[i].hop].resp]_vars
    /\ [][\A k \in 1..Len(hops) :
             (call' = call /\ Len(hops') = Len(hops)
                 /\ hops'[k].running # hops[k].running /\ hops'[k].running \subseteq hops[k].running) =>
                 /\ Cardinality(hops[k].running \ hops'[k].running) = 1
                 /\ hops'[k].resp # NoResp
                 /\ hops[k].resp # NoResp => hops'[k].resp = hops[k].resp
                 /\ hops[k].resp = NoResp => 
                       \E run \in hops[k].running \ hops'[k].running :
                          hops'[k].resp \in {ReplyFor(run.does), RespNull}]_vars

\* the handler threw a value that is no Error, at once; the reply was an
\* {error} holding "Unknown error" with that value as its cause
C33_Witness ==
    /\ \E e \in ExclusiveEntries :
          /\ e.does = Throws(Thrown("oops"))
          /\ hops[e.hop].claimed = {e.ctx}
          /\ hops[e.hop].running = {}
          /\ hops[e.hop].resp = RespError([plain |-> TRUE, name |-> "Error",
                                           message |-> <<"Unknown error">>, cause |-> <<"oops">>])
    /\ call.st = "done"

\* the same for a promise rejected later with an Error
C33_WitnessLate ==
    \E e \in ExclusiveEntries :
       /\ e.does = Rejects(NewError(<<"boom">>, <<>>))
       /\ hops[e.hop].running = {}
       /\ hops[e.hop].resp = RespError(serializeError(NewError(<<"boom">>, <<>>)))

(***************************************************************************)
(* Properties of a session's end of life                                   *)
(***************************************************************************)
\* C34: an error frame destroys the session that receives it. A session that
\* has been handed an error frame is not live and its signal has fired.
C34_ErrorFrameDestroys ==
    \A e \in Ends :
       streams[e].errorFrames > 0 => (~streams[e].connected /\ streams[e].aborted)

\* C35: death is irreversible. A session that is not live stays so in every
\* step, with its signal fired once and for all and its port never open
\* again; and no frame is handed to a session twice: what an end has been
\* handed are frames the other end sent, each at most once.
C35_DeathIrreversible ==
    /\ [][\A e \in Ends :
             (streams[e].exists /\ ~streams[e].connected) =>
                 /\ streams'[e].exists
                 /\ ~streams'[e].connected
                 /\ streams'[e].aborted
                 /\ streams'[e].abortEvents = streams[e].abortEvents
                 /\ ports[e].state = "disconnected" => ports'[e].state = "disconnected"]_vars
    /\ [](\A e \in Ends :
             LET got == streams[e].dispatched
                 sent == streams[Other(e)].sent
             IN  /\ \A i \in 1..Len(got) : \E j \in 1..Len(sent) : sent[j] = got[i]
                 /\ \A i, j \in 1..Len(got) : i # j => got[i] # got[j])

\* both ends are dead, every event has been delivered, the consumer has
\* pulled on the dead session, and the frames sent before were handed over once
C35_Witness ==
    /\ \A e \in Ends : streams[e].exists /\ ~streams[e].connected /\ ports[e].inbox = <<>>
    /\ streams["acceptor"].sent = <<1, 2>>
    /\ streams["opener"].dispatched = <<1, 2>>
    /\ streams["opener"].iterSt = "done"

\* an inbound connection is about to be handed to the accepting side
Connecting == ports["acceptor"].inbox # <<>> /\ Head(ports["acceptor"].inbox).ev = "connect"

\* C36: inbound connections are matched by name. When the accepting side is
\* handed a connection and a factory is registered for its name, one live
\* session is built around it and that factory is called once, with it; when
\* none is registered no session is built, no factory is called, and the
\* connection stays open: nothing is sent back to its opener. A session on
\* the accepting side always comes from one call of one factory.
C36_ConnectionMatched ==
    /\ [][(Connecting /\ ports'["acceptor"].inbox = Tail(ports["acceptor"].inbox)) =>
             LET name == Head(ports["acceptor"].inbox).key
             IN  /\ ports'["acceptor"].state = "open"
                 /\ ports'["acceptor"].name = name
                 /\ ports'["opener"] = ports["opener"]
                 /\ streams'["opener"] = streams["opener"]
                 /\ IF listeners[name] # None
                      THEN /\ streams'["acceptor"].exists /\ streams'["acceptor"].connected
                           /\ streams'["acceptor"].factory = listeners[name]
                           /\ streams'["acceptor"].factoryCalls = 1
                      ELSE streams'["acceptor"] = NoSession]_vars
    /\ [](/\ streams["acceptor"].factoryCalls <= 1
          /\ streams["acceptor"].exists <=> streams["acceptor"].factoryCalls = 1
          /\ streams["acceptor"].exists => streams["acceptor"].factory \in Factories)

\* a connection arrived while no factory was registered for its name: it is
\* open, nobody holds a session for it, and its opener is still live
C36_Witness ==
    /\ ports["acceptor"].state = "open"
    /\ ~streams["acceptor"].exists
    /\ streams["opener"].connected
    /\ ports["opener"].inbox = <<>>

\* a connection was handed to the factory registered in place of the first
C36_WitnessMatched ==
    /\ streams["acceptor"].exists
    /\ streams["acceptor"].factory = "factory2"
    /\ streams["acceptor"].factoryCalls = 1

(***************************************************************************)
(* Properties of a session's observers                                     *)
(***************************************************************************)
\* the opening end is handed the port event at the head of its inbox
Handed(ev, key) ==
    /\ ports["opener"].inbox # <<>>
    /\ Head(ports["opener"].inbox).ev = ev
    /\ Head(ports["opener"].inbox).key = key
    /\ ports'["opener"].inbox = Tail(ports["opener"].inbox)
    /\ ports["opener"].state = "open"

\* registration i of the opening end is called in this step, or is not
Called(i) == streams'["opener"].regs[i].got # streams["opener"].regs[i].got
Standing(i, kind) ==
    streams["opener"].regs[i].kind = kind /\ ~streams["opener"].regs[i].disposed

\* C37: observers of a session. Any number of them stand at once; a data
\* frame calls, once each, the onMessage observers not unregistered and
\* nobody else, an error frame the onError observers not unregistered and
\* nobody else, the disconnect the onClose observers not unregistered and
\* nobody else; and unregistering changes the one registration only.
C37_SessionObservers ==
    [][/\ \A i \in 1..Len(streams["opener"].regs) :
            /\ Handed("message", "data") => (Called(i) <=> Standing(i, "message"))
            /\ Handed("message", "error") => (Called(i) <=> Standing(i, "error"))
            /\ Handed("disconnect", "") => (Called(i) <=> Standing(i, "close"))
            /\ Called(i) => Len(streams'["opener"].regs[i].got) = Len(streams["opener"].regs[i].got) + 1
            /\ streams'["opener"].regs[i].disposed # streams["opener"].regs[i].disposed =>
                  \A j \in 1..Len(streams["opener"].regs) :
                     j # i => streams'["opener"].regs[j] = streams["opener"].regs[j]
    ]_vars

(***************************************************************************)
(* Properties of iter() around the end of the session                      *)
(***************************************************************************)
\* the accepting end closed, not through error(), and the opening end's
\* sequence has ended normally
EndedByClose ==
    /\ streams["acceptor"].closeCalled
    /\ streams["acceptor"].errorCalled = <<>>
    /\ streams["opener"].iterSt = "done"

\* C38: a frame sent before close() is not lost. When the consumer's sequence
\* has ended after the other end closed, it has yielded every frame that was
\* sent before the close and had not been dispatched when iter() returned the
\* sequence, in order.
C38_FramesBeforeClose ==
    EndedByClose =>
       streams["opener"].yielded = From(streams["acceptor"].sent, streams["opener"].iterFrom)

\* the same for the frames dispatched since the first pull
StartedConsumerGetsFrames ==
    EndedByClose =>
       streams["opener"].yielded = From(streams["acceptor"].sent, streams["opener"].startFrom)

\* C39: a sequence started on a dead session terminates. When the opening
\* end holds a sequence not yet pulled and its session is not live, the
\* sequence eventually ends normally, having yielded nothing.
C39_DeadSessionSequenceEnds ==
    (streams["opener"].exists /\ ~streams["opener"].connected /\ streams["opener"].iterSt = "created")
       ~> (streams["opener"].iterSt = "done" /\ streams["opener"].yielded = <<>>)


(***************************************************************************)
(* Properties of the storage cache                                         *)
(***************************************************************************)
\* nothing is in flight: every get has been answered and every notification
\* delivered
Quiescent == fetches = {} /\ changes = <<>>

\* what storage holds for key k, as a cache entry
Current(k) ==
    IF k \in DOMAIN storage THEN CacheObj(storage[k], TRUE) ELSE CacheObj(Undefined, FALSE)

\* C40: storage cache coherence. Once every fetch in flight has completed and
\* every change notification has been delivered, each key the cache holds
\* has the entry (value and exists flag) that storage holds for it now,
\* also when a notification for the key came while its first fetch was in
\* flight.
C40_CacheCoherent ==
    Quiescent => \A k \in DOMAIN cache : cache[k] = Current(k)

\* the same for the keys no notification overtook: a key is stale only when
\* a notification for it was dropped after the host had read it for a fetch
\* whose reply came later
CoherentUnlessOvertaken ==
    Quiescent => \A k \in DOMAIN cache \ overtaken : cache[k] = Current(k)

====
